---- MODULE Spec2Model ----
(***************************************************************************)
(* CSysMatrix of SU2 (Common/src/linear_algebra/CSysMatrix.cpp): the       *)
(* block-CSR matrix of one partition, its point-to-point halo exchange     *)
(* (InitiateComms / CompleteComms) and the operations built on it.         *)
(*                                                                         *)
(* Arrays are functions over 0..n-1, as in the source.  One partition is   *)
(* one MPI rank; every rank owns one CSysMatrix, one CGeometry and the     *)
(* CSysVector it passes to the communication routines.                     *)
(***************************************************************************)
EXTENDS Integers, Sequences, FiniteSets, TLC

\* ------------------------------------------------------------------------
\* Bounds of the model
\* ------------------------------------------------------------------------


\* Halo-exchange rounds (InitiateComms + CompleteComms) one rank performs.
MaxRound == 2

\* Products one rank computes.
MaxProducts == 2

\* Largest block size (nVar, nEqn) Initialize is called with.
MaxBlock == 2

\* Largest level of fill of the ILU pattern.
MaxFill == 1

\* Structural edits (DeleteValsRowi, EnforceSolutionAtNode) of one matrix.
MaxEdits == 2

\* Builds of a preconditioner of one matrix.
MaxBuilds == 2

\* Largest block size on the mesh of one point.
MaxPointBlock == 3

\* ------------------------------------------------------------------------
\* Generic helpers
\* ------------------------------------------------------------------------

\* A 0-based array from a TLA+ sequence.
Arr(s) == [i \in 0..(Len(s) - 1) |-> s[i + 1]]

\* Number of elements of a 0-based array.
ALen(a) == Cardinality(DOMAIN a)

\* The element of a set of one element.  A state handed from one pass of a
\* loop to the next is bound as the element of a set, which computes it
\* once.
TheOnly(S) == CHOOSE e \in S : TRUE

RECURSIVE SumTo(_, _)
\* f[0] + ... + f[n-1]
SumTo(f, n) == IF n = 0 THEN 0 ELSE SumTo(f, n - 1) + f[n - 1]

\* ------------------------------------------------------------------------
\* Quantity kinds (commType) handed to InitiateComms / CompleteComms
\* ------------------------------------------------------------------------

SOLUTION_MATRIX == "SOLUTION_MATRIX"

SOLUTION_MATRIXTRANS == "SOLUTION_MATRIXTRANS"

\* Any other value of the enumeration (SOLUTION, SOLUTION_OLD, ...).
SOLUTION == "SOLUTION"

QuantityKinds == {SOLUTION_MATRIX, SOLUTION_MATRIXTRANS, SOLUTION}

\* ------------------------------------------------------------------------
\* Partitioned meshes.  A mesh gives, per rank, the number of points, the
\* number of owned points, and per neighbour the list of local points sent
\* to it (owned points) and received from it (halo points).  The i-th point
\* of the list rank p sends to q mirrors the i-th point q receives from p.
\* ------------------------------------------------------------------------

Nb(r, pts) == [rank |-> r, pts |-> Arr(pts)]

\* One rank, three owned points, no neighbour.
MeshSolo ==
  [size |-> 1, nPoint |-> Arr(<<3>>), nPointDomain |-> Arr(<<3>>),
   send |-> Arr(<< Arr(<<>>) >>),
   recv |-> Arr(<< Arr(<<>>) >>)]

\* Two ranks, each one owned point (0) and one halo point (1) mirroring the
\* other's owned point.
MeshPair ==
  [size |-> 2, nPoint |-> Arr(<<2, 2>>), nPointDomain |-> Arr(<<1, 1>>),
   send |-> Arr(<< Arr(<<Nb(1, <<0>>)>>), Arr(<<Nb(0, <<0>>)>>) >>),
   recv |-> Arr(<< Arr(<<Nb(1, <<1>>)>>), Arr(<<Nb(0, <<1>>)>>) >>)]

\* Two ranks with lists of different lengths: rank 0 owns 0,1 and mirrors
\* rank 1's point 0 in 2; rank 1 owns 0 and mirrors rank 0's 1,0 in 1,2.
MeshUneven ==
  [size |-> 2, nPoint |-> Arr(<<3, 3>>), nPointDomain |-> Arr(<<2, 1>>),
   send |-> Arr(<< Arr(<<Nb(1, <<1, 0>>)>>), Arr(<<Nb(0, <<0>>)>>) >>),
   recv |-> Arr(<< Arr(<<Nb(1, <<2>>)>>), Arr(<<Nb(0, <<1, 2>>)>>) >>)]

\* Three ranks in a row: the middle rank has two neighbours, and its owned
\* point 0 is on the send list of both.
MeshRow ==
  [size |-> 3, nPoint |-> Arr(<<2, 3, 2>>), nPointDomain |-> Arr(<<1, 1, 1>>),
   send |-> Arr(<< Arr(<<Nb(1, <<0>>)>>),
                   Arr(<<Nb(0, <<0>>), Nb(2, <<0>>)>>),
                   Arr(<<Nb(1, <<0>>)>>) >>),
   recv |-> Arr(<< Arr(<<Nb(1, <<1>>)>>),
                   Arr(<<Nb(0, <<1>>), Nb(2, <<2>>)>>),
                   Arr(<<Nb(1, <<1>>)>>) >>)]

\* Two ranks, one-way: rank 1 mirrors rank 0's owned point, rank 0 mirrors
\* nothing.  Rank 0 has one send neighbour and no receive neighbour, rank 1
\* one receive neighbour and no send neighbour.
MeshOneWay ==
  [size |-> 2, nPoint |-> Arr(<<1, 2>>), nPointDomain |-> Arr(<<1, 1>>),
   send |-> Arr(<< Arr(<<Nb(1, <<0>>)>>), Arr(<<>>) >>),
   recv |-> Arr(<< Arr(<<>>), Arr(<<Nb(0, <<1>>)>>) >>)]

\* Two ranks without neighbours: rank 0 owns one point, rank 1 none.
MeshIdle ==
  [size |-> 2, nPoint |-> Arr(<<1, 0>>), nPointDomain |-> Arr(<<1, 0>>),
   send |-> Arr(<< Arr(<<>>), Arr(<<>>) >>),
   recv |-> Arr(<< Arr(<<>>), Arr(<<>>) >>)]

ParallelMeshes == {MeshPair, MeshUneven, MeshRow, MeshOneWay}

Meshes == {MeshSolo} \cup ParallelMeshes

\* ------------------------------------------------------------------------
\* State
\* ------------------------------------------------------------------------

VARIABLES
  mesh,            \* the partitioned mesh of the run (CGeometry, one per rank)
  quantity,        \* the commType the solver passes in this run
  pc,              \* pc[p]: where rank p is
  round,           \* round[p]: halo exchanges rank p has started
  callType,        \* callType[p]: commType of the CompleteComms call in progress
  iMessage,        \* iMessage[p]: loop counter of CompleteComms
  x,               \* x[p]: the CSysVector passed to the communication routines
  countPerPoint,   \* geometry->countPerPoint
  bufD_P2PSend,    \* geometry->bufD_P2PSend
  bufD_P2PRecv,    \* geometry->bufD_P2PRecv
  req_P2PSend,     \* geometry->req_P2PSend: the send request handles
  req_P2PRecv,     \* geometry->req_P2PRecv: the receive request handles
  sendq,           \* MPI: sends posted by a rank whose buffer is not yet read
  net,             \* MPI: net[s][d], messages from s to d not yet matched
  errMsg,          \* errMsg[p]: message of the fatal error rank p raised
  ub,              \* ub[p]: rank p executed an operation C++ leaves undefined
  x0,              \* history: x[p] when rank p last called InitiateComms
  processed,       \* history: neighbour slots CompleteComms has scattered
  sentLog,         \* history: messages posted by the last InitiateComms
  \* The CSysMatrix object of each rank (f[p] is the field of rank p's matrix)
  nVar, nEqn, nPoint, nPointDomain,
  nnz, row_ptr, col_ind, dia_ptr, matrix,
  ilu_fill_in, nnz_ilu, row_ptr_ilu, col_ind_ilu, dia_ptr_ilu, ILU_matrix,
  invM,
  block, block_weight, block_inverse,
  aux_vector, sum_vector, prod_row_vector,
  config,          \* the CConfig of the run
  NDEBUG,          \* whether the build defines NDEBUG
  operation,       \* the product the solver calls in this run
  vec,             \* vec[p]: the CSysVector multiplied (nVar, nBlk, values)
  prodShape,       \* prodShape[p]: nVar and nBlk of the CSysVector x[p]
  initCalls,       \* history: calls of Initialize on rank p's matrix
  nEdits,          \* nEdits[p]: structural edits of rank p's matrix so far
  lastEdit,        \* history: the last structural edit of rank p's matrix
  nBuilds,         \* nBuilds[p]: preconditioner builds of rank p's matrix so far
  lastBuild,       \* history: the last preconditioner build of rank p's matrix
  nLinelet,        \* nLinelet[p]: chains of rank p's matrix
  LineletBool,     \* LineletBool[p]: which points are in a chain
  LineletPoint,    \* LineletPoint[p]: the points of each chain, in order
  LineletUpper,    \* LineletUpper[p]: upper blocks cached by the Thomas pass
  LineletInvDiag,  \* LineletInvDiag[p]: modified diagonals of the Thomas pass
  LineletVector,   \* LineletVector[p]: right-hand side and solution of a chain
  max_nElem,       \* max_nElem[p]: local of BuildLineletPreconditioner
  Global_nPoints,  \* Global_nPoints[p]: local of BuildLineletPreconditioner
  MeanPoints,      \* MeanPoints[p]: what BuildLineletPreconditioner returned
  reduced,         \* MPI: reduced[p], what rank p passed to each Allreduce
  growth,          \* history: the decisions of the last chain discovery
  thomas           \* thomas[p]: the apply on rank p has its second pass ahead

commVars ==
  <<mesh, quantity, pc, round, callType, iMessage, x, countPerPoint,
    bufD_P2PSend, bufD_P2PRecv, req_P2PSend, req_P2PRecv, sendq, net,
    errMsg, ub, x0, processed, sentLog>>

\* The dimension, pattern and buffer fields of the matrix objects.
objVars ==
  <<nVar, nEqn, nPoint, nPointDomain, nnz, row_ptr, col_ind, dia_ptr, matrix,
    ilu_fill_in, nnz_ilu, row_ptr_ilu, col_ind_ilu, dia_ptr_ilu, ILU_matrix,
    invM, block, block_weight, block_inverse, aux_vector, sum_vector,
    prod_row_vector>>

\* The state of the structural edits.
editVars == <<nEdits, lastEdit>>

\* The state of the preconditioner builds.
precVars == <<nBuilds, lastBuild>>

\* The state of the linelet preconditioner.
lineletVars ==
  <<nLinelet, LineletBool, LineletPoint, LineletUpper, LineletInvDiag,
    LineletVector, max_nElem, Global_nPoints, MeanPoints, reduced, growth,
    thomas>>

matVars ==
  <<objVars, config, NDEBUG, operation, vec, prodShape, initCalls, editVars,
    precVars, lineletVars>>

vars == <<commVars, matVars>>

Ranks == 0..(mesh.size - 1)

\* ------------------------------------------------------------------------
\* CGeometry: the point-to-point communication tables of rank p
\* ------------------------------------------------------------------------

nP2PSend(p) == ALen(mesh.send[p])

nP2PRecv(p) == ALen(mesh.recv[p])

Neighbors_P2PSend(p) == [i \in DOMAIN mesh.send[p] |-> mesh.send[p][i].rank]

Neighbors_P2PRecv(p) == [i \in DOMAIN mesh.recv[p] |-> mesh.recv[p][i].rank]

\* Cumulative point counts: entry i is the offset of message i, the last
\* entry the total.
CumCount(list) ==
  [i \in 0..ALen(list) |-> SumTo([k \in DOMAIN list |-> ALen(list[k].pts)], i)]

nPoint_P2PSend(p) == CumCount(mesh.send[p])

nPoint_P2PRecv(p) == CumCount(mesh.recv[p])

\* The local point indices of all messages, one after the other.
LocalPoints(list) ==
  LET cum == CumCount(list)
      msgOf(s) == CHOOSE k \in DOMAIN list : cum[k] <= s /\ s < cum[k + 1]
  IN [s \in 0..(cum[ALen(list)] - 1) |-> list[msgOf(s)].pts[s - cum[msgOf(s)]]]

Local_Point_P2PSend(p) == LocalPoints(mesh.send[p])

Local_Point_P2PRecv(p) == LocalPoints(mesh.recv[p])

\* rank -> slot of that neighbour in the send (receive) tables
P2PSend2Neighbor(p) ==
  [r \in {mesh.send[p][i].rank : i \in DOMAIN mesh.send[p]} |->
     CHOOSE i \in DOMAIN mesh.send[p] : mesh.send[p][i].rank = r]

P2PRecv2Neighbor(p) ==
  [r \in {mesh.recv[p][i].rank : i \in DOMAIN mesh.recv[p]} |->
     CHOOSE i \in DOMAIN mesh.recv[p] : mesh.recv[p][i].rank = r]

\* AllocateP2PComms(count): both buffers are reallocated for `count' values
\* per communicated point and zeroed.
AllocatedBuffer(list, count) ==
  [k \in 0..(count * CumCount(list)[ALen(list)] - 1) |-> 0]

\* The operations whose scalars are held as exact fractions <<n, d>>.
FractionOperations ==
  {"ComputeJacobiPreconditioner", "ComputeILUPreconditioner",
   "ComputeLU_SGSPreconditioner", "ComputeLineletPreconditioner"}

\* The zeroed buffer buf in the scalars of the run.
ZeroedScalars(buf) ==
  IF operation \in FractionOperations THEN [k \in DOMAIN buf |-> <<0, 1>>]
  ELSE buf

\* ------------------------------------------------------------------------
\* Vectors
\* ------------------------------------------------------------------------

\* The vector of n scalars of seed s: entry k holds 10*s + k + 1, so that
\* the entries of one vector differ and vectors of different seeds differ.
SeededVector(s, n) == [k \in 0..(n - 1) |-> 10 * s + k + 1]

\* ------------------------------------------------------------------------
\* Fatal errors.  SU2_MPI::Error prints the message and aborts the whole
\* process group: no rank takes a step once one rank has raised it.
\* ------------------------------------------------------------------------

UnrecognizedQuantity == "Unrecognized quantity for point-to-point MPI comms."

Aborted == \E p \in Ranks : pc[p] = "error"

\* ------------------------------------------------------------------------
\* MPI requests.  A receive request names its source and the buffer region
\* the message is written to; a posted send is queued with the buffer
\* region MPI reads the message from when it transmits it.
\* ------------------------------------------------------------------------

NullRecv == [st |-> "null", src |-> -1, buf |-> "R", off |-> 0, cnt |-> 0]

NullSend == [st |-> "null", id |-> 0]

BufferOf(p, b) == IF b = "S" THEN bufD_P2PSend[p] ELSE bufD_P2PRecv[p]

\* ------------------------------------------------------------------------
\* InitiateComms
\* ------------------------------------------------------------------------

\* The switch on commType: (recognized, reverse).
QuantityReverse(commType) == commType = SOLUTION_MATRIXTRANS

QuantityRecognized(commType) ==
  commType \in {SOLUTION_MATRIX, SOLUTION_MATRIXTRANS}

\* Whether InitiateComms enters the block that posts receives and sends.
InitiateGuard(p) == nP2PSend(p) > 0

\* Number of messages InitiateComms packs and sends.
InitiateMessages(p) == nP2PSend(p)

\* The point tables InitiateComms packs from: the send tables in forward
\* mode, the receive tables in reverse mode.
PackOffsets(p, reverse) ==
  IF reverse THEN nPoint_P2PRecv(p) ELSE nPoint_P2PSend(p)

PackPoints(p, reverse) ==
  IF reverse THEN Local_Point_P2PRecv(p) ELSE Local_Point_P2PSend(p)

\* Loading message iMsg: for each of its points the nv values of xv at that
\* point go to buffer offset (msg_offset + iSend) * cpp.
PackMessage(buf, xv, offs, pts, iMsg, cpp, nv) ==
  LET msg_offset == offs[iMsg]
      nSend == offs[iMsg + 1] - offs[iMsg]
      slotOf(k) == CHOOSE iSend \in 0..(nSend - 1) :
                     \E iVar \in 0..(nv - 1) :
                       k = (msg_offset + iSend) * cpp + iVar
  IN [k \in DOMAIN buf |->
        IF \E iSend \in 0..(nSend - 1) : \E iVar \in 0..(nv - 1) :
             k = (msg_offset + iSend) * cpp + iVar
        THEN LET iPoint == pts[msg_offset + slotOf(k)]
                 iVar == k - (msg_offset + slotOf(k)) * cpp
             IN xv[iPoint * nv + iVar]
        ELSE buf[k]]

RECURSIVE PackMessages(_, _, _, _, _, _, _)
\* The loop over the first n messages.
PackMessages(buf, xv, offs, pts, n, cpp, nv) ==
  IF n = 0 THEN buf
  ELSE PackMessage(PackMessages(buf, xv, offs, pts, n - 1, cpp, nv),
                   xv, offs, pts, n - 1, cpp, nv)

\* PostP2PRecvs: one receive per entry of the receive tables (forward) or,
\* in reverse, with the send tables taken as the receive tables.
PostP2PRecvs(p, reverse, cpp) ==
  [iRecv \in 0..(nP2PRecv(p) - 1) |->
     IF reverse
     THEN [st |-> "active", src |-> Neighbors_P2PSend(p)[iRecv], buf |-> "S",
           off |-> cpp * nPoint_P2PSend(p)[iRecv],
           cnt |-> cpp * (nPoint_P2PSend(p)[iRecv + 1] - nPoint_P2PSend(p)[iRecv])]
     ELSE [st |-> "active", src |-> Neighbors_P2PRecv(p)[iRecv], buf |-> "R",
           off |-> cpp * nPoint_P2PRecv(p)[iRecv],
           cnt |-> cpp * (nPoint_P2PRecv(p)[iRecv + 1] - nPoint_P2PRecv(p)[iRecv])]]

\* PostP2PSends: the send of message iSend.
PostP2PSends(p, iSend, reverse, cpp, id) ==
  IF reverse
  THEN [dst |-> Neighbors_P2PRecv(p)[iSend], buf |-> "R",
        off |-> cpp * nPoint_P2PRecv(p)[iSend],
        cnt |-> cpp * (nPoint_P2PRecv(p)[iSend + 1] - nPoint_P2PRecv(p)[iSend]),
        h |-> iSend, id |-> id]
  ELSE [dst |-> Neighbors_P2PSend(p)[iSend], buf |-> "S",
        off |-> cpp * nPoint_P2PSend(p)[iSend],
        cnt |-> cpp * (nPoint_P2PSend(p)[iSend + 1] - nPoint_P2PSend(p)[iSend]),
        h |-> iSend, id |-> id]

\* The values of region [off, off + cnt) of a buffer, as a sequence.
Region(buf, off, cnt) == [i \in 1..cnt |-> buf[off + i - 1]]

\* In reverse mode the loops index the receive tables with the send count and
\* the send tables with the receive count: with 0 < nP2PSend # nP2PRecv one of
\* them reads past the end of nPoint_P2P*, Neighbors_P2P* and the buffers.
ReverseOutOfBounds(p, reverse) ==
  reverse /\ InitiateGuard(p) /\ InitiateMessages(p) # nP2PRecv(p)

\* InitiateComms on the state of the halo exchange.
InitiateComms_Exchange(p, xv, commType) ==
  /\ ~Aborted
  /\ pc[p] \in {"idle", "done"}
  /\ LET reverse == QuantityReverse(commType)
         COUNT_PER_POINT == nVar[p]
         grow == COUNT_PER_POINT > countPerPoint[p]
         cpp == IF grow THEN COUNT_PER_POINT ELSE countPerPoint[p]
         sbuf == IF grow THEN ZeroedScalars(AllocatedBuffer(mesh.send[p], cpp))
                 ELSE bufD_P2PSend[p]
         rbuf == IF grow THEN ZeroedScalars(AllocatedBuffer(mesh.recv[p], cpp))
                 ELSE bufD_P2PRecv[p]
         nMsg == InitiateMessages(p)
         packed == PackMessages(IF reverse THEN rbuf ELSE sbuf, xv,
                                PackOffsets(p, reverse), PackPoints(p, reverse),
                                nMsg, cpp, nVar[p])
         ops == [i \in 1..nMsg |-> PostP2PSends(p, i - 1, reverse, cpp, round[p] + 1)]
     IN IF ~QuantityRecognized(commType)
        THEN /\ pc' = [pc EXCEPT ![p] = "error"]
             /\ errMsg' = [errMsg EXCEPT ![p] = UnrecognizedQuantity]
             /\ UNCHANGED <<round, x0, sentLog, countPerPoint, bufD_P2PSend,
                            bufD_P2PRecv, req_P2PSend, req_P2PRecv, sendq, ub>>
        ELSE IF ReverseOutOfBounds(p, reverse)
        THEN /\ pc' = [pc EXCEPT ![p] = "ub"]
             /\ ub' = [ub EXCEPT ![p] = TRUE]
             /\ UNCHANGED <<round, x0, sentLog, countPerPoint, bufD_P2PSend,
                            bufD_P2PRecv, req_P2PSend, req_P2PRecv, sendq, errMsg>>
        ELSE /\ pc' = [pc EXCEPT ![p] = "initiated"]
             /\ round' = [round EXCEPT ![p] = @ + 1]
             /\ x0' = [x0 EXCEPT ![p] = xv]
             /\ countPerPoint' = [countPerPoint EXCEPT ![p] = cpp]
             /\ IF InitiateGuard(p)
                THEN /\ req_P2PRecv' = [req_P2PRecv EXCEPT ![p] = PostP2PRecvs(p, reverse, cpp)]
                     /\ bufD_P2PSend' = [bufD_P2PSend EXCEPT ![p] = IF reverse THEN sbuf ELSE packed]
                     /\ bufD_P2PRecv' = [bufD_P2PRecv EXCEPT ![p] = IF reverse THEN packed ELSE rbuf]
                     /\ req_P2PSend' = [req_P2PSend EXCEPT ![p] =
                                          [i \in 0..(nP2PSend(p) - 1) |->
                                             [st |-> "active", id |-> round[p] + 1]]]
                     /\ sendq' = [sendq EXCEPT ![p] = @ \o ops]
                     /\ sentLog' = [sentLog EXCEPT ![p] =
                                      [i \in 1..nMsg |->
                                         [dst |-> ops[i].dst,
                                          data |-> Region(packed, ops[i].off, ops[i].cnt)]]]
                ELSE /\ bufD_P2PSend' = [bufD_P2PSend EXCEPT ![p] = sbuf]
                     /\ bufD_P2PRecv' = [bufD_P2PRecv EXCEPT ![p] = rbuf]
                     /\ sentLog' = [sentLog EXCEPT ![p] = <<>>]
                     /\ UNCHANGED <<req_P2PSend, req_P2PRecv, sendq>>
             /\ UNCHANGED <<ub, errMsg>>
  /\ UNCHANGED <<mesh, quantity, callType, iMessage, net, processed>>

\* InitiateComms called by an operation that leaves the matrix as it is.
InitiateComms(p, xv, commType) ==
  /\ InitiateComms_Exchange(p, xv, commType)
  /\ UNCHANGED matVars

\* A solver passes its vector x and the run's commType to InitiateComms.
Call_InitiateComms(p) ==
  /\ round[p] < MaxRound
  /\ InitiateComms(p, x[p], quantity)
  /\ UNCHANGED x

\* ------------------------------------------------------------------------
\* CompleteComms
\* ------------------------------------------------------------------------

\* Whether CompleteComms enters the block that waits for the messages (and,
\* at its end, for the sends).
CompleteGuard(p) == nP2PRecv(p) > 0

\* Number of Waitany iterations of CompleteComms.
CompleteMessages(p) == nP2PRecv(p)

\* The tables CompleteComms scatters with: the receive tables in forward
\* mode, the send tables in reverse mode.
ScatterOffsets(p, reverse) ==
  IF reverse THEN nPoint_P2PSend(p) ELSE nPoint_P2PRecv(p)

ScatterPoints(p, reverse) ==
  IF reverse THEN Local_Point_P2PSend(p) ELSE Local_Point_P2PRecv(p)

ScatterNeighbor(p, reverse) ==
  IF reverse THEN P2PSend2Neighbor(p) ELSE P2PRecv2Neighbor(p)

ScatterBuffer(p, reverse) ==
  IF reverse THEN bufD_P2PSend[p] ELSE bufD_P2PRecv[p]

\* jRecv: the neighbour slot of the message Waitany returned, looked up with
\* the message's source rank (iMsg is the loop counter).
NeighborSlot_LoopCounter(p, reverse, source, iMsg) == iMsg

NeighborSlot(p, reverse, source, iMsg) == ScatterNeighbor(p, reverse)[source]

\* The store into the vector: assignment in forward mode, += in reverse.
Store_Assign(old, received, reverse) == received

Store(old, received, reverse) == IF reverse THEN old + received ELSE received

\* Offset in the buffer of point iRecv of the message starting at msg_offset.
BufOffset(msg_offset, iRecv, cpp) == (msg_offset + iRecv) * cpp

RECURSIVE ScatterMessage(_, _, _, _, _, _, _, _)
\* The loop over the first n points of the message at msg_offset.
ScatterMessage(xv, buf, msg_offset, pts, n, cpp, nv, reverse) ==
  IF n = 0 THEN xv
  ELSE LET prev == ScatterMessage(xv, buf, msg_offset, pts, n - 1, cpp, nv, reverse)
           iRecv == n - 1
           iPoint == pts[msg_offset + iRecv]
           buf_offset == BufOffset(msg_offset, iRecv, cpp)
       IN [k \in DOMAIN prev |->
             IF k \in {iPoint * nv + iVar : iVar \in 0..(nv - 1)}
             THEN Store(prev[k], buf[buf_offset + (k - iPoint * nv)], reverse)
             ELSE prev[k]]

\* The body of one case of the switch: message jRecv scattered into xv.
ScatterNeighborMessage(p, xv, jRecv, reverse) ==
  LET offs == ScatterOffsets(p, reverse)
  IN ScatterMessage(xv, ScatterBuffer(p, reverse), offs[jRecv],
                    ScatterPoints(p, reverse), offs[jRecv + 1] - offs[jRecv],
                    countPerPoint[p], nVar[p], reverse)

\* The caller enters CompleteComms with commType.
CompleteComms_Enter(p, commType) ==
  /\ ~Aborted
  /\ pc[p] = "initiated"
  /\ callType' = [callType EXCEPT ![p] = commType]
  /\ IF CompleteGuard(p)
     THEN pc' = [pc EXCEPT ![p] = "waitany"]
     ELSE pc' = [pc EXCEPT ![p] = "done"]
  /\ iMessage' = [iMessage EXCEPT ![p] = 0]
  /\ processed' = [processed EXCEPT ![p] = <<>>]
  /\ UNCHANGED <<mesh, quantity, round, x, countPerPoint, bufD_P2PSend,
                 bufD_P2PRecv, req_P2PSend, req_P2PRecv, sendq, net, errMsg,
                 ub, x0, sentLog, matVars>>

\* A solver passes to CompleteComms the commType it passed to InitiateComms;
\* SOLUTION stands for a call with an unrecognized one.
Call_CompleteComms(p) ==
  \E commType \in {quantity, SOLUTION} : CompleteComms_Enter(p, commType)

\* What follows Waitany's return with (ind, source): the switch, then the
\* loop increment.
AfterWaitany(p, source, jRecvOf) ==
  IF ~QuantityRecognized(callType[p])
  THEN /\ pc' = [pc EXCEPT ![p] = "error"]
       /\ errMsg' = [errMsg EXCEPT ![p] = UnrecognizedQuantity]
       /\ UNCHANGED <<x, iMessage, processed>>
  ELSE LET reverse == QuantityReverse(callType[p])
           jRecv == jRecvOf
       IN /\ x' = [x EXCEPT ![p] = ScatterNeighborMessage(p, x[p], jRecv, reverse)]
          /\ processed' = [processed EXCEPT ![p] = Append(@, jRecv)]
          /\ iMessage' = [iMessage EXCEPT ![p] = @ + 1]
          /\ pc' = [pc EXCEPT ![p] =
                      IF iMessage[p] + 1 < CompleteMessages(p)
                      THEN "waitany" ELSE "waitall"]
          /\ UNCHANGED errMsg

\* One iteration of the loop: Waitany returns a receive that has completed,
\* whichever it is, and the message is scattered.
CompleteComms_Waitany(p) ==
  /\ ~Aborted
  /\ pc[p] = "waitany"
  /\ \E ind \in DOMAIN req_P2PRecv[p] :
       /\ req_P2PRecv[p][ind].st = "complete"
       /\ LET source == req_P2PRecv[p][ind].src
          IN AfterWaitany(p, source,
                          NeighborSlot(p, QuantityReverse(callType[p]), source,
                                       iMessage[p]))
       /\ req_P2PRecv' = [req_P2PRecv EXCEPT ![p][ind] = NullRecv]
  /\ UNCHANGED <<mesh, quantity, round, callType, countPerPoint, bufD_P2PSend,
                 bufD_P2PRecv, req_P2PSend, sendq, net, ub, x0, sentLog, matVars>>

\* Waitany when no receive request was posted (InitiateComms skipped its
\* block): the requests are not valid, Waitany's index and status are not
\* those of a message, and the neighbour slot looked up with the source is
\* arbitrary.  Either the rank stops there, or it goes on with some slot and
\* whatever the buffer holds.
CompleteComms_WaitanyUnposted(p) ==
  /\ ~Aborted
  /\ pc[p] = "waitany"
  /\ \A ind \in DOMAIN req_P2PRecv[p] : req_P2PRecv[p][ind].st = "null"
  /\ ub' = [ub EXCEPT ![p] = TRUE]
  /\ \/ /\ pc' = [pc EXCEPT ![p] = "ub"]
        /\ UNCHANGED <<x, iMessage, processed, errMsg>>
     \/ /\ ~QuantityReverse(callType[p])
        /\ \E jRecv \in 0..(nP2PRecv(p) - 1) : AfterWaitany(p, -1, jRecv)
  /\ UNCHANGED <<mesh, quantity, round, callType, countPerPoint, bufD_P2PSend,
                 bufD_P2PRecv, req_P2PSend, req_P2PRecv, sendq, net, x0,
                 sentLog, matVars>>

\* The final Waitall on the send requests, inside the block CompleteGuard
\* opens: it returns when every send request is complete.
CompleteComms_Waitall(p) ==
  /\ ~Aborted
  /\ pc[p] = "waitall"
  /\ \A i \in DOMAIN req_P2PSend[p] : req_P2PSend[p][i].st # "active"
  /\ req_P2PSend' = [req_P2PSend EXCEPT ![p] = [i \in DOMAIN @ |-> NullSend]]
  /\ pc' = [pc EXCEPT ![p] = "done"]
  /\ UNCHANGED <<mesh, quantity, round, callType, iMessage, x, countPerPoint,
                 bufD_P2PSend, bufD_P2PRecv, req_P2PRecv, sendq, net, errMsg,
                 ub, x0, processed, sentLog, matVars>>

\* ------------------------------------------------------------------------
\* MPI
\* ------------------------------------------------------------------------

\* MPI reads the buffer of a posted send and takes the message: the send is
\* then locally complete.  Sends to one destination are taken in the order
\* they were posted.  The request handle is completed if it still is the
\* handle of this send.
MPI_Transmit(p) ==
  /\ ~Aborted
  /\ \E k \in 1..Len(sendq[p]) :
       LET op == sendq[p][k]
       IN /\ \A m \in 1..(k - 1) : sendq[p][m].dst # op.dst
          /\ net' = [net EXCEPT ![p][op.dst] =
                       Append(@, Region(BufferOf(p, op.buf), op.off, op.cnt))]
          /\ sendq' = [sendq EXCEPT ![p] =
                         SubSeq(@, 1, k - 1) \o SubSeq(@, k + 1, Len(@))]
          /\ req_P2PSend' =
               [req_P2PSend EXCEPT ![p] =
                  [i \in DOMAIN @ |->
                     IF i = op.h /\ @[i].st = "active" /\ @[i].id = op.id
                     THEN [@[i] EXCEPT !.st = "complete"] ELSE @[i]]]
  /\ UNCHANGED <<mesh, quantity, pc, round, callType, iMessage, x,
                 countPerPoint, bufD_P2PSend, bufD_P2PRecv, req_P2PRecv,
                 errMsg, ub, x0, processed, sentLog, matVars>>

\* MPI matches the oldest message of the source with a posted receive and
\* writes it to the receive's buffer region: the receive is complete.
MPI_Deliver(p) ==
  /\ ~Aborted
  /\ \E ind \in DOMAIN req_P2PRecv[p] :
       LET req == req_P2PRecv[p][ind]
       IN /\ req.st = "active"
          /\ net[req.src][p] # <<>>
          /\ LET data == Head(net[req.src][p])
                 write(buf) == [k \in DOMAIN buf |->
                                  IF req.off <= k /\ k < req.off + Len(data)
                                  THEN data[k - req.off + 1] ELSE buf[k]]
             IN /\ Len(data) = req.cnt
                /\ IF req.buf = "S"
                   THEN /\ bufD_P2PSend' = [bufD_P2PSend EXCEPT ![p] = write(@)]
                        /\ UNCHANGED bufD_P2PRecv
                   ELSE /\ bufD_P2PRecv' = [bufD_P2PRecv EXCEPT ![p] = write(@)]
                        /\ UNCHANGED bufD_P2PSend
          /\ net' = [net EXCEPT ![req.src][p] = Tail(@)]
          /\ req_P2PRecv' = [req_P2PRecv EXCEPT ![p][ind].st = "complete"]
  /\ UNCHANGED <<mesh, quantity, pc, round, callType, iMessage, x,
                 countPerPoint, req_P2PSend, sendq, errMsg, ub, x0, processed,
                 sentLog, matVars>>

\* ------------------------------------------------------------------------
\* The matrix object: construction and Initialize
\* ------------------------------------------------------------------------

\* A pointer is null or points to an array.
nullptr == [null |-> TRUE, a |-> << >>]

Pointer(arr) == [null |-> FALSE, a |-> arr]

\* ALLOC_AND_INIT(ptr, sz): a new array of sz scalars, all 0.  new[] of size
\* 0 returns a pointer that is not null.
ALLOC_AND_INIT(sz) == Pointer([k \in 0..(sz - 1) |-> 0])

\* Kinds of preconditioner of the configuration.
JACOBI == "JACOBI"

LU_SGS == "LU_SGS"

LINELET == "LINELET"

ILU == "ILU"

\* ConnectivityType
FiniteVolume == "FiniteVolume"

FiniteElement == "FiniteElement"

\* The configurations of a run.
Configs ==
  [Kind_Linear_Solver_Prec : {JACOBI, LU_SGS, LINELET, ILU},
   Kind_Deform_Linear_Solver_Prec : {JACOBI, LU_SGS, LINELET, ILU},
   Kind_DiscAdj_Linear_Prec : {JACOBI, LU_SGS, LINELET, ILU},
   Discrete_Adjoint : BOOLEAN,
   Linear_Solver_ILU_n : 0..MaxFill]

\* A flow solver with the Jacobi preconditioner.
ConfigJacobi ==
  [Kind_Linear_Solver_Prec |-> JACOBI,
   Kind_Deform_Linear_Solver_Prec |-> LU_SGS,
   Kind_DiscAdj_Linear_Prec |-> LU_SGS,
   Discrete_Adjoint |-> FALSE,
   Linear_Solver_ILU_n |-> 0]

\* The graph of rank p's points: the edges of the mesh if it lists them; else
\* consecutive points are linked, and the halo points are linked to the last
\* owned point.
Linked(m, p, i, j) ==
  IF "edges" \in DOMAIN m
  THEN i = j \/ <<i, j>> \in m.edges[p] \/ <<j, i>> \in m.edges[p]
  ELSE \/ i = j
       \/ i - j = 1
       \/ j - i = 1
       \/ (i = m.nPointDomain[p] - 1 /\ j >= m.nPointDomain[p])
       \/ (j = m.nPointDomain[p] - 1 /\ i >= m.nPointDomain[p])

RECURSIVE Reach(_, _, _, _, _)
\* j is within hops + 1 links of i.
Reach(m, p, i, j, hops) ==
  IF hops = 0 THEN Linked(m, p, i, j)
  ELSE \E l \in 0..(m.nPoint[p] - 1) :
         Reach(m, p, i, l, hops - 1) /\ Linked(m, p, l, j)

PatternRow(m, p, i, hops) ==
  {j \in 0..(m.nPoint[p] - 1) : Reach(m, p, i, j, hops)}

\* The element of S with k smaller elements.
Nth(S, k) == CHOOSE e \in S : Cardinality({t \in S : t < e}) = k

\* geometry->GetSparsePattern(type, fill): the CSR pattern of rank p, one row
\* per owned point (the row pointer has nPointDomain + 1 entries), columns
\* ascending over owned and halo points, the diagonal in every row.
\* Finite-element connectivity and each level of fill link one step further.
GetSparsePattern(m, p, type, fill) ==
  LET hops == (IF type = FiniteElement THEN 1 ELSE 0) + fill
      n == m.nPointDomain[p]
      count == [i \in 0..(n - 1) |-> Cardinality(PatternRow(m, p, i, hops))]
      outer == [i \in 0..n |-> SumTo(count, i)]
      rowOf == [k \in 0..(outer[n] - 1) |->
                  CHOOSE i \in 0..(n - 1) : outer[i] <= k /\ k < outer[i + 1]]
  IN [outerPtr |-> Pointer(outer),
      innerIdx |-> Pointer([k \in 0..(outer[n] - 1) |->
                              Nth(PatternRow(m, p, rowOf[k], hops),
                                  k - outer[rowOf[k]])]),
      diagPtr |-> Pointer([i \in 0..(n - 1) |->
                             outer[i] + Cardinality({j \in PatternRow(m, p, i, hops) : j < i})]),
      nnz |-> outer[n]]

\* The fields of rank p's matrix object.
Object(p) ==
  [nVar |-> nVar[p], nEqn |-> nEqn[p], nPoint |-> nPoint[p],
   nPointDomain |-> nPointDomain[p], nnz |-> nnz[p], row_ptr |-> row_ptr[p],
   col_ind |-> col_ind[p], dia_ptr |-> dia_ptr[p], matrix |-> matrix[p],
   ilu_fill_in |-> ilu_fill_in[p], nnz_ilu |-> nnz_ilu[p],
   row_ptr_ilu |-> row_ptr_ilu[p], col_ind_ilu |-> col_ind_ilu[p],
   dia_ptr_ilu |-> dia_ptr_ilu[p], ILU_matrix |-> ILU_matrix[p],
   invM |-> invM[p], block |-> block[p], block_weight |-> block_weight[p],
   block_inverse |-> block_inverse[p], aux_vector |-> aux_vector[p],
   sum_vector |-> sum_vector[p], prod_row_vector |-> prod_row_vector[p]]

\* The object the constructor leaves: every pointer null.  The constructor
\* does not assign the dimensions and counts; they hold 0 here and no
\* operation reads them before Initialize assigns them.
CSysMatrix ==
  [nVar |-> 0, nEqn |-> 0, nPoint |-> 0, nPointDomain |-> 0, nnz |-> 0,
   row_ptr |-> nullptr, col_ind |-> nullptr, dia_ptr |-> nullptr,
   matrix |-> nullptr,
   ilu_fill_in |-> 0, nnz_ilu |-> 0,
   row_ptr_ilu |-> nullptr, col_ind_ilu |-> nullptr, dia_ptr_ilu |-> nullptr,
   ILU_matrix |-> nullptr,
   invM |-> nullptr, block |-> nullptr, block_weight |-> nullptr,
   block_inverse |-> nullptr, aux_vector |-> nullptr, sum_vector |-> nullptr,
   prod_row_vector |-> nullptr]

ilu_needed(cfg) ==
  \/ cfg.Kind_Linear_Solver_Prec = ILU
  \/ cfg.Kind_Deform_Linear_Solver_Prec = ILU
  \/ (cfg.Discrete_Adjoint /\ cfg.Kind_DiscAdj_Linear_Prec = ILU)

invM_needed(cfg) ==
  \/ ilu_needed(cfg)
  \/ cfg.Kind_Linear_Solver_Prec = JACOBI
  \/ cfg.Kind_Linear_Solver_Prec = LINELET
  \/ (cfg.Discrete_Adjoint /\ cfg.Kind_DiscAdj_Linear_Prec = JACOBI)
  \/ cfg.Kind_Deform_Linear_Solver_Prec = JACOBI

\* The assignments of Initialize to the object obj of rank p (the build does
\* not define USE_MKL).
InitializeObject(obj, m, cfg, p, npoint, npointdomain, nvar, neqn, EdgeConnect) ==
  LET type == IF EdgeConnect THEN FiniteVolume ELSE FiniteElement
      csr == GetSparsePattern(m, p, type, 0)
      csr_ilu == GetSparsePattern(m, p, type, cfg.Linear_Solver_ILU_n)
      ilu == ilu_needed(cfg)
  IN [obj EXCEPT
        !.nVar = nvar,
        !.nEqn = neqn,
        !.nPoint = npoint,
        !.nPointDomain = npointdomain,
        !.row_ptr = csr.outerPtr,
        !.col_ind = csr.innerIdx,
        !.dia_ptr = csr.diagPtr,
        !.nnz = csr.nnz,
        !.ilu_fill_in = IF ilu THEN cfg.Linear_Solver_ILU_n ELSE @,
        !.row_ptr_ilu = IF ilu THEN csr_ilu.outerPtr ELSE @,
        !.col_ind_ilu = IF ilu THEN csr_ilu.innerIdx ELSE @,
        !.dia_ptr_ilu = IF ilu THEN csr_ilu.diagPtr ELSE @,
        !.nnz_ilu = IF ilu THEN csr_ilu.nnz ELSE @,
        !.matrix = ALLOC_AND_INIT(csr.nnz * nvar * neqn),
        !.block = ALLOC_AND_INIT(nvar * neqn),
        !.block_weight = ALLOC_AND_INIT(nvar * neqn),
        !.block_inverse = ALLOC_AND_INIT(nvar * neqn),
        !.aux_vector = ALLOC_AND_INIT(nvar),
        !.sum_vector = ALLOC_AND_INIT(nvar),
        !.prod_row_vector = ALLOC_AND_INIT(nvar),
        !.ILU_matrix = IF ilu THEN ALLOC_AND_INIT(csr_ilu.nnz * nvar * neqn) ELSE @,
        !.invM = IF invM_needed(cfg)
                 THEN ALLOC_AND_INIT(npointdomain * nvar * neqn) ELSE @]

\* Rank p's object becomes obj.
SetObject(p, obj) ==
  /\ nVar' = [nVar EXCEPT ![p] = obj.nVar]
  /\ nEqn' = [nEqn EXCEPT ![p] = obj.nEqn]
  /\ nPoint' = [nPoint EXCEPT ![p] = obj.nPoint]
  /\ nPointDomain' = [nPointDomain EXCEPT ![p] = obj.nPointDomain]
  /\ nnz' = [nnz EXCEPT ![p] = obj.nnz]
  /\ row_ptr' = [row_ptr EXCEPT ![p] = obj.row_ptr]
  /\ col_ind' = [col_ind EXCEPT ![p] = obj.col_ind]
  /\ dia_ptr' = [dia_ptr EXCEPT ![p] = obj.dia_ptr]
  /\ matrix' = [matrix EXCEPT ![p] = obj.matrix]
  /\ ilu_fill_in' = [ilu_fill_in EXCEPT ![p] = obj.ilu_fill_in]
  /\ nnz_ilu' = [nnz_ilu EXCEPT ![p] = obj.nnz_ilu]
  /\ row_ptr_ilu' = [row_ptr_ilu EXCEPT ![p] = obj.row_ptr_ilu]
  /\ col_ind_ilu' = [col_ind_ilu EXCEPT ![p] = obj.col_ind_ilu]
  /\ dia_ptr_ilu' = [dia_ptr_ilu EXCEPT ![p] = obj.dia_ptr_ilu]
  /\ ILU_matrix' = [ILU_matrix EXCEPT ![p] = obj.ILU_matrix]
  /\ invM' = [invM EXCEPT ![p] = obj.invM]
  /\ block' = [block EXCEPT ![p] = obj.block]
  /\ block_weight' = [block_weight EXCEPT ![p] = obj.block_weight]
  /\ block_inverse' = [block_inverse EXCEPT ![p] = obj.block_inverse]
  /\ aux_vector' = [aux_vector EXCEPT ![p] = obj.aux_vector]
  /\ sum_vector' = [sum_vector EXCEPT ![p] = obj.sum_vector]
  /\ prod_row_vector' = [prod_row_vector EXCEPT ![p] = obj.prod_row_vector]

\* The matrix objects of the ranks are objs[p].
ObjectsAre(objs) ==
  /\ nVar = [p \in DOMAIN objs |-> objs[p].nVar]
  /\ nEqn = [p \in DOMAIN objs |-> objs[p].nEqn]
  /\ nPoint = [p \in DOMAIN objs |-> objs[p].nPoint]
  /\ nPointDomain = [p \in DOMAIN objs |-> objs[p].nPointDomain]
  /\ nnz = [p \in DOMAIN objs |-> objs[p].nnz]
  /\ row_ptr = [p \in DOMAIN objs |-> objs[p].row_ptr]
  /\ col_ind = [p \in DOMAIN objs |-> objs[p].col_ind]
  /\ dia_ptr = [p \in DOMAIN objs |-> objs[p].dia_ptr]
  /\ matrix = [p \in DOMAIN objs |-> objs[p].matrix]
  /\ ilu_fill_in = [p \in DOMAIN objs |-> objs[p].ilu_fill_in]
  /\ nnz_ilu = [p \in DOMAIN objs |-> objs[p].nnz_ilu]
  /\ row_ptr_ilu = [p \in DOMAIN objs |-> objs[p].row_ptr_ilu]
  /\ col_ind_ilu = [p \in DOMAIN objs |-> objs[p].col_ind_ilu]
  /\ dia_ptr_ilu = [p \in DOMAIN objs |-> objs[p].dia_ptr_ilu]
  /\ ILU_matrix = [p \in DOMAIN objs |-> objs[p].ILU_matrix]
  /\ invM = [p \in DOMAIN objs |-> objs[p].invM]
  /\ block = [p \in DOMAIN objs |-> objs[p].block]
  /\ block_weight = [p \in DOMAIN objs |-> objs[p].block_weight]
  /\ block_inverse = [p \in DOMAIN objs |-> objs[p].block_inverse]
  /\ aux_vector = [p \in DOMAIN objs |-> objs[p].aux_vector]
  /\ sum_vector = [p \in DOMAIN objs |-> objs[p].sum_vector]
  /\ prod_row_vector = [p \in DOMAIN objs |-> objs[p].prod_row_vector]

OnlyOnce == "CSysMatrix can only be initialized once."

\* The test Initialize starts with: matrix != nullptr.
AlreadyInitialized_invM(p) == ~invM[p].null

AlreadyInitialized(p) == ~matrix[p].null

\* The variables of the halo exchange but pc and errMsg.
exchangeVars ==
  <<mesh, quantity, round, callType, iMessage, x, countPerPoint, bufD_P2PSend,
    bufD_P2PRecv, req_P2PSend, req_P2PRecv, sendq, net, ub, x0, processed,
    sentLog>>

Initialize(p, npoint, npointdomain, nvar, neqn, EdgeConnect) ==
  /\ ~Aborted
  /\ pc[p] = "idle"
  /\ initCalls' = [initCalls EXCEPT ![p] = @ + 1]
  /\ IF AlreadyInitialized(p)
     THEN /\ pc' = [pc EXCEPT ![p] = "error"]
          /\ errMsg' = [errMsg EXCEPT ![p] = OnlyOnce]
          /\ UNCHANGED objVars
     ELSE /\ SetObject(p, InitializeObject(Object(p), mesh, config, p, npoint,
                                           npointdomain, nvar, neqn, EdgeConnect))
          /\ UNCHANGED <<pc, errMsg>>
  /\ UNCHANGED <<exchangeVars, config, NDEBUG, operation, vec, prodShape,
                 editVars, precVars, lineletVars>>

\* ------------------------------------------------------------------------
\* MatrixVectorProduct and MatrixVectorProductTransposed
\* ------------------------------------------------------------------------

MatrixVectorProductName == "MatrixVectorProduct"

MatrixVectorProductTransposedName == "MatrixVectorProductTransposed"

nVarMessage == "nVar values incompatible."

nBlkMessage == "nPoint and nBlk values incompatible."

\* The first check of both products (compiled only without NDEBUG).
nVarIncompatible_VecOnly(p) == nVar[p] # vec[p].nVar

nVarIncompatible(p) == nVar[p] # vec[p].nVar \/ nVar[p] # prodShape[p].nVar

\* The second check.
nBlkIncompatible(p) == nPoint[p] # vec[p].nBlk \/ nPoint[p] # prodShape[p].nBlk

\* product[i] += sum over j of matrix[i*nVar+j] * vector[j], on the block at
\* mb of mat, the block at vb of v and the block at pb of prod.
MatrixVectorProductAdd(mat, mb, v, vb, prod, pb, nv) ==
  [k \in DOMAIN prod |->
     IF k >= pb /\ k < pb + nv
     THEN prod[k] + SumTo([j \in 0..(nv - 1) |->
                             mat[mb + (k - pb) * nv + j] * v[vb + j]], nv)
     ELSE prod[k]]

\* product[j] += sum over i of matrix[i*nVar+j] * vector[i].
MatrixVectorProductTransp(mat, mb, v, vb, prod, pb, nv) ==
  [k \in DOMAIN prod |->
     IF k >= pb /\ k < pb + nv
     THEN prod[k] + SumTo([i \in 0..(nv - 1) |->
                             mat[mb + i * nv + (k - pb)] * v[vb + i]], nv)
     ELSE prod[k]]

\* The offsets the loop body of a product uses for row_i and index.
vec_begin(p, transposed, row_i, index) ==
  (IF transposed THEN row_i ELSE col_ind[p].a[index]) * nVar[p]

prod_begin(p, transposed, row_i, index) ==
  (IF transposed THEN col_ind[p].a[index] ELSE row_i) * nVar[p]

mat_begin(p, index) == index * nVar[p] * nVar[p]

RECURSIVE ProductIndexLoop(_, _, _, _, _, _, _)
\* for (index = ...; index < row_ptr[row_i+1]; index++) of a product
ProductIndexLoop(p, transposed, v, prod, row_i, index, last) ==
  IF index >= last THEN prod
  ELSE ProductIndexLoop(
         p, transposed, v,
         IF transposed
         THEN MatrixVectorProductTransp(matrix[p].a, mat_begin(p, index), v,
                                        vec_begin(p, transposed, row_i, index), prod,
                                        prod_begin(p, transposed, row_i, index), nVar[p])
         ELSE MatrixVectorProductAdd(matrix[p].a, mat_begin(p, index), v,
                                     vec_begin(p, transposed, row_i, index), prod,
                                     prod_begin(p, transposed, row_i, index), nVar[p]),
         row_i, index + 1, last)

RECURSIVE ProductRowLoop(_, _, _, _, _)
\* for (row_i = 0; row_i < nPointDomain; row_i++) of a product
ProductRowLoop(p, transposed, v, prod, row_i) ==
  IF row_i >= nPointDomain[p] THEN prod
  ELSE ProductRowLoop(p, transposed, v,
                      ProductIndexLoop(p, transposed, v, prod, row_i,
                                       row_ptr[p].a[row_i],
                                       row_ptr[p].a[row_i + 1]),
                      row_i + 1)

\* prod = ScalarType(0.0)
ZeroVector(n) == [k \in 0..(n - 1) |-> 0]

\* Whether every element the loops read and write lies inside its array.
ProductInBounds(p, transposed, vlen, plen) ==
  \A row_i \in 0..(nPointDomain[p] - 1) :
    /\ row_i + 1 \in DOMAIN row_ptr[p].a
    /\ \A index \in row_ptr[p].a[row_i]..(row_ptr[p].a[row_i + 1] - 1) :
         /\ index \in DOMAIN col_ind[p].a
         /\ mat_begin(p, index) + nVar[p] * nVar[p] <= ALen(matrix[p].a)
         /\ vec_begin(p, transposed, row_i, index) + nVar[p] <= vlen
         /\ prod_begin(p, transposed, row_i, index) + nVar[p] <= plen

\* Rank p raises the fatal error msg.
Fatal(p, msg) ==
  /\ pc' = [pc EXCEPT ![p] = "error"]
  /\ errMsg' = [errMsg EXCEPT ![p] = msg]

\* A product up to the return of its InitiateComms call.
Product(p, transposed, commType) ==
  /\ ~Aborted
  /\ pc[p] \in {"idle", "done"}
  /\ round[p] < MaxProducts
  /\ LET plen == prodShape[p].nVar * prodShape[p].nBlk
         vlen == vec[p].nVar * vec[p].nBlk
         prod == ProductRowLoop(p, transposed, vec[p].a, ZeroVector(plen), 0)
     IN IF ~NDEBUG /\ nVarIncompatible(p)
        THEN /\ Fatal(p, nVarMessage)
             /\ UNCHANGED <<exchangeVars, matVars>>
        ELSE IF ~NDEBUG /\ nBlkIncompatible(p)
        THEN /\ Fatal(p, nBlkMessage)
             /\ UNCHANGED <<exchangeVars, matVars>>
        ELSE IF ~ProductInBounds(p, transposed, vlen, plen)
        THEN /\ x' = [x EXCEPT ![p] = ZeroVector(plen)]
             /\ pc' = [pc EXCEPT ![p] = "ub"]
             /\ ub' = [ub EXCEPT ![p] = TRUE]
             /\ UNCHANGED <<mesh, quantity, round, callType, iMessage,
                            countPerPoint, bufD_P2PSend, bufD_P2PRecv,
                            req_P2PSend, req_P2PRecv, sendq, net, errMsg, x0,
                            processed, sentLog, matVars>>
        ELSE /\ x' = [x EXCEPT ![p] = prod]
             /\ InitiateComms(p, prod, commType)

MatrixVectorProduct(p) ==
  /\ operation = MatrixVectorProductName
  /\ Product(p, FALSE, SOLUTION_MATRIX)

MatrixVectorProductTransposed(p) ==
  /\ operation = MatrixVectorProductTransposedName
  /\ Product(p, TRUE, SOLUTION_MATRIXTRANS)

\* The CompleteComms call that ends MatrixVectorProduct.
MatrixVectorProduct_CompleteComms(p) ==
  /\ operation = MatrixVectorProductName
  /\ CompleteComms_Enter(p, SOLUTION_MATRIX)

\* The CompleteComms call that ends MatrixVectorProductTransposed.
MatrixVectorProductTransposed_CompleteComms(p) ==
  /\ operation = MatrixVectorProductTransposedName
  /\ CompleteComms_Enter(p, SOLUTION_MATRIXTRANS)

\* ------------------------------------------------------------------------
\* Structural edits: DeleteValsRowi and EnforceSolutionAtNode
\* ------------------------------------------------------------------------

DeleteValsRowiName == "DeleteValsRowi"

EnforceSolutionAtNodeName == "EnforceSolutionAtNode"

\* The history of a matrix no edit was applied to.
NoEdit ==
  [op |-> "none", i |-> 0, v |-> << >>, mat |-> << >>, b |-> << >>,
   blocks |-> {}, row_ptr |-> {}]

NoEdits(m) ==
  /\ nEdits = [p \in 0..(m.size - 1) |-> 0]
  /\ lastEdit = [p \in 0..(m.size - 1) |-> NoEdit]

\* The arguments of the operations and the call history but the edits.
callVars == <<config, NDEBUG, operation, vec, prodShape, initCalls>>

\* The variables of the halo exchange an operation without communication
\* leaves alone.
quietVars ==
  <<mesh, quantity, round, callType, iMessage, countPerPoint, bufD_P2PSend,
    bufD_P2PRecv, req_P2PSend, req_P2PRecv, sendq, net, errMsg, x0, processed,
    sentLog>>

\* index = row_ptr[r]; index < row_ptr[r+1]
RowIndices(p, r) == row_ptr[p].a[r]..(row_ptr[p].a[r + 1] - 1)

\* The blocks an operation addresses, as (nonzero index, offset of the first
\* scalar), for the nonzero indices of S.
AddressedBlocks(p, S) == {<<index, mat_begin(p, index)>> : index \in S}

\* Whether the nVar*nVar scalars of every addressed block are inside matrix.
BlocksInBounds(p, blocks) ==
  \A bl \in blocks : bl[2] + nVar[p] * nVar[p] <= ALen(matrix[p].a)

\* Rank p executes an undefined operation.
Undefined(p) ==
  /\ pc' = [pc EXCEPT ![p] = "ub"]
  /\ ub' = [ub EXCEPT ![p] = TRUE]

\* DeleteValsRowi(i): block_i = i/nVar, row = i - block_i*nVar
block_i(p, i) == i \div nVar[p]

row_in_block(p, i) == i - block_i(p, i) * nVar[p]

\* The scalar DeleteValsRowi(i) sets to 1 in the block of nonzero index.
DiagonalElement_FirstColumn(p, i, index) ==
  index * nVar[p] * nVar[p] + row_in_block(p, i) * nVar[p]

DiagonalElement(p, i, index) ==
  index * nVar[p] * nVar[p] + row_in_block(p, i) * nVar[p] + row_in_block(p, i)

\* The loop of DeleteValsRowi(i) on the scalars mat.
DeleteValsRowi_Loop(p, mat, i) ==
  [k \in DOMAIN mat |->
     IF \E index \in RowIndices(p, block_i(p, i)) :
          /\ col_ind[p].a[index] = block_i(p, i)
          /\ k = DiagonalElement(p, i, index)
     THEN 1
     ELSE IF \E index \in RowIndices(p, block_i(p, i)) :
               \E iVar \in 0..(nVar[p] - 1) :
                 k = index * nVar[p] * nVar[p] + row_in_block(p, i) * nVar[p] + iVar
     THEN 0
     ELSE mat[k]]

DeleteValsRowi(p, i) ==
  /\ ~Aborted
  /\ pc[p] \in {"idle", "done"}
  /\ nEdits[p] < MaxEdits
  /\ nEdits' = [nEdits EXCEPT ![p] = @ + 1]
  /\ LET blocks == AddressedBlocks(p, RowIndices(p, block_i(p, i)))
     IN /\ lastEdit' = [lastEdit EXCEPT ![p] =
                          [op |-> DeleteValsRowiName, i |-> i, v |-> << >>,
                           mat |-> matrix[p].a, b |-> x[p], blocks |-> blocks,
                           row_ptr |-> {block_i(p, i), block_i(p, i) + 1}]]
        /\ IF BlocksInBounds(p, blocks)
           THEN /\ SetObject(p, [Object(p) EXCEPT
                                   !.matrix = Pointer(DeleteValsRowi_Loop(p, matrix[p].a, i))])
                /\ UNCHANGED <<pc, ub>>
           ELSE /\ Undefined(p)
                /\ UNCHANGED objVars
  /\ UNCHANGED <<quietVars, x, callVars, precVars, lineletVars>>

\* "Delete whole row first": the scalars of the blocks of row node_i are 0.
EnforceSolutionAtNode_DeleteRow(p, mat, node_i) ==
  [k \in DOMAIN mat |->
     IF /\ k >= row_ptr[p].a[node_i] * nVar[p] * nVar[p]
        /\ k < row_ptr[p].a[node_i + 1] * nVar[p] * nVar[p]
     THEN 0 ELSE mat[k]]

\* b[iPoint*nVar+iVar] -= matrix[mat_begin+iVar*nVar+jVar] * x_i[jVar]
EnforceSolutionAtNode_ColumnProduct(p, mat, b, iPoint, index, x_i) ==
  [k \in DOMAIN b |->
     IF k >= iPoint * nVar[p] /\ k < (iPoint + 1) * nVar[p]
     THEN b[k] - SumTo([jVar \in 0..(nVar[p] - 1) |->
                          mat[mat_begin(p, index) + (k - iPoint * nVar[p]) * nVar[p] + jVar]
                            * x_i[jVar]], nVar[p])
     ELSE b[k]]

\* "If on diagonal, set diagonal of block to 1, else delete block."
EnforceSolutionAtNode_Block(p, mat, iPoint, node_i, index) ==
  [k \in DOMAIN mat |->
     IF iPoint = node_i
     THEN IF \E iVar \in 0..(nVar[p] - 1) :
               k = mat_begin(p, index) + iVar * (nVar[p] + 1)
          THEN 1 ELSE mat[k]
     ELSE IF k >= mat_begin(p, index) /\ k < mat_begin(p, index) + nVar[p] * nVar[p]
          THEN 0 ELSE mat[k]]

RECURSIVE EnforceSolutionAtNode_IndexLoop(_, _, _, _, _, _, _)
\* for (index = row_ptr[iPoint]; index < row_ptr[iPoint+1]; ++index), on the
\* matrix and vector st.
EnforceSolutionAtNode_IndexLoop(p, st, iPoint, node_i, x_i, index, last) ==
  IF index >= last THEN st
  ELSE EnforceSolutionAtNode_IndexLoop(
         p,
         IF col_ind[p].a[index] = node_i
         THEN [mat |-> EnforceSolutionAtNode_Block(p, st.mat, iPoint, node_i, index),
               b |-> EnforceSolutionAtNode_ColumnProduct(p, st.mat, st.b, iPoint,
                                                         index, x_i)]
         ELSE st,
         iPoint, node_i, x_i, index + 1, last)

RECURSIVE EnforceSolutionAtNode_PointLoop(_, _, _, _, _, _)
\* for (iPoint = 0; iPoint < n; ++iPoint)
EnforceSolutionAtNode_PointLoop(p, st, iPoint, n, node_i, x_i) ==
  IF iPoint >= n THEN st
  ELSE EnforceSolutionAtNode_PointLoop(
         p,
         EnforceSolutionAtNode_IndexLoop(p, st, iPoint, node_i, x_i,
                                         row_ptr[p].a[iPoint],
                                         row_ptr[p].a[iPoint + 1]),
         iPoint + 1, n, node_i, x_i)

\* "Set know solution in rhs vector."
EnforceSolutionAtNode_SetSolution(p, b, node_i, x_i) ==
  [k \in DOMAIN b |->
     IF k >= node_i * nVar[p] /\ k < (node_i + 1) * nVar[p]
     THEN x_i[k - node_i * nVar[p]] ELSE b[k]]

\* The rows the loop over iPoint < nPoint finds in the row pointer array:
\* row iPoint needs row_ptr[iPoint] and row_ptr[iPoint+1].
EnforceSolutionAtNode_Rows(p) == nPoint[p]

RowsInPattern(p) == ALen(row_ptr[p].a) - 1

\* The indices at which the call reads the row pointer array: node_i and
\* node_i+1 for the row, iPoint and iPoint+1 for every point of the loop.
EnforceSolutionAtNode_RowPointers(p, node_i) ==
  {node_i, node_i + 1}
    \cup UNION {{iPoint, iPoint + 1} : iPoint \in 0..(EnforceSolutionAtNode_Rows(p) - 1)}

\* EnforceSolutionAtNode(node_i, x_i, b) on the vector b = x[p].  The loop
\* over the points reads the row pointer of every point below the loop
\* bound; past the end of the array the read is undefined and the call is
\* modelled up to it.
EnforceSolutionAtNode(p, node_i, x_i) ==
  /\ ~Aborted
  /\ pc[p] \in {"idle", "done"}
  /\ nEdits[p] < MaxEdits
  /\ nEdits' = [nEdits EXCEPT ![p] = @ + 1]
  /\ LET rows == EnforceSolutionAtNode_Rows(p)
         inside == IF rows <= RowsInPattern(p) THEN rows ELSE RowsInPattern(p)
         blocks == AddressedBlocks(p,
                     RowIndices(p, node_i) \cup
                     {index \in DOMAIN col_ind[p].a : col_ind[p].a[index] = node_i})
         st == EnforceSolutionAtNode_PointLoop(
                 p,
                 [mat |-> EnforceSolutionAtNode_DeleteRow(p, matrix[p].a, node_i),
                  b |-> x[p]],
                 0, inside, node_i, x_i)
     IN /\ lastEdit' = [lastEdit EXCEPT ![p] =
                          [op |-> EnforceSolutionAtNodeName, i |-> node_i, v |-> x_i,
                           mat |-> matrix[p].a, b |-> x[p], blocks |-> blocks,
                           row_ptr |-> EnforceSolutionAtNode_RowPointers(p, node_i)]]
        /\ IF ~BlocksInBounds(p, blocks)
           THEN /\ Undefined(p)
                /\ UNCHANGED <<objVars, x>>
           ELSE IF rows > RowsInPattern(p)
           THEN /\ Undefined(p)
                /\ SetObject(p, [Object(p) EXCEPT !.matrix = Pointer(st.mat)])
                /\ x' = [x EXCEPT ![p] = st.b]
           ELSE /\ SetObject(p, [Object(p) EXCEPT !.matrix = Pointer(st.mat)])
                /\ x' = [x EXCEPT ![p] =
                           EnforceSolutionAtNode_SetSolution(p, st.b, node_i, x_i)]
                /\ UNCHANGED <<pc, ub>>
  /\ UNCHANGED <<quietVars, callVars, precVars, lineletVars>>

\* ------------------------------------------------------------------------
\* Scalars of the preconditioners.  ScalarType is a binary floating-point
\* type; the model keeps its arithmetic without the rounding: a finite value
\* is the exact fraction <<n, d>> in lowest terms with d > 0, <<1, 0>> and
\* <<-1, 0>> are the infinities and <<0, 0>> is NaN (a zero has no sign).
\* ------------------------------------------------------------------------

RECURSIVE Gcd(_, _)
Gcd(a, b) == IF b = 0 THEN a ELSE Gcd(b, a % b)

Abs(n) == IF n < 0 THEN 0 - n ELSE n

Sgn(n) == IF n < 0 THEN -1 ELSE IF n = 0 THEN 0 ELSE 1

\* The value n/d.
Frac(n, d) ==
  IF d = 0 THEN <<Sgn(n), 0>>
  ELSE LET g == Gcd(Abs(n), Abs(d))
       IN <<(Sgn(d) * n) \div g, Abs(d) \div g>>

\* ScalarType(n) of an integer n.
ScalarType(n) == <<n, 1>>

NaN == <<0, 0>>

IsFinite(a) == a[2] # 0

\* a + b
Plus(a, b) ==
  IF ~IsFinite(a) /\ ~IsFinite(b)
  THEN (IF a = b THEN a ELSE NaN)
  ELSE IF ~IsFinite(a) \/ ~IsFinite(b)
  THEN Frac(a[1] * b[2] + b[1] * a[2], a[2] * b[2])
  ELSE LET g == Gcd(a[2], b[2])
       IN Frac(a[1] * (b[2] \div g) + b[1] * (a[2] \div g), (a[2] \div g) * b[2])

\* a - b
Minus(a, b) == Plus(a, <<0 - b[1], b[2]>>)

\* a * b
Times(a, b) ==
  IF ~IsFinite(a) \/ ~IsFinite(b)
  THEN Frac(a[1] * b[1], a[2] * b[2])
  ELSE LET g1 == Gcd(Abs(a[1]), b[2])
           g2 == Gcd(Abs(b[1]), a[2])
       IN Frac((a[1] \div g1) * (b[1] \div g2), (a[2] \div g2) * (b[2] \div g1))

\* a / b
Over(a, b) == Times(a, Frac((IF b[1] < 0 THEN -1 ELSE 1) * b[2], Abs(b[1])))

\* An array of integers as an array of scalars.
Scalars(arr) == [k \in DOMAIN arr |-> ScalarType(arr[k])]

\* ------------------------------------------------------------------------
\* Dense block kernels
\* ------------------------------------------------------------------------

\* One step of "Transform system in Upper Matrix" of MatrixInverse: row iVar
\* minus weight times row jVar.
MatrixInverse_Eliminate(st, nvar, iVar, jVar) ==
  LET weight == Over(st.block[iVar * nvar + jVar], st.block[jVar * nvar + jVar])
  IN [block |->
        [e \in DOMAIN st.block |->
           IF e \div nvar = iVar /\ e % nvar >= jVar
           THEN Minus(st.block[e], Times(weight, st.block[jVar * nvar + (e % nvar)]))
           ELSE st.block[e]],
      inverse |->
        [e \in DOMAIN st.inverse |->
           IF e \div nvar = iVar /\ e % nvar <= jVar
           THEN Minus(st.inverse[e], Times(weight, st.inverse[jVar * nvar + (e % nvar)]))
           ELSE st.inverse[e]]]

RECURSIVE MatrixInverse_Upper(_, _, _, _)
\* for (iVar = 1; iVar < nvar; iVar++) for (jVar = 0; jVar < iVar; jVar++)
MatrixInverse_Upper(st, nvar, iVar, jVar) ==
  IF iVar >= nvar THEN st
  ELSE IF jVar >= iVar THEN MatrixInverse_Upper(st, nvar, iVar + 1, 0)
  ELSE MatrixInverse_Upper(MatrixInverse_Eliminate(st, nvar, iVar, jVar),
                           nvar, iVar, jVar + 1)

RECURSIVE MatrixInverse_RowMinus(_, _, _, _, _)
\* for (jVar = iVar+1; jVar < nvar; jVar++) for (kVar ...)
\*   inverse[iVar*nvar+kVar] -= blk[iVar*nvar+jVar] * inverse[jVar*nvar+kVar]
MatrixInverse_RowMinus(blk, inverse, nvar, iVar, jVar) ==
  IF jVar >= nvar THEN inverse
  ELSE MatrixInverse_RowMinus(
         blk,
         [e \in DOMAIN inverse |->
            IF e \div nvar = iVar
            THEN Minus(inverse[e],
                       Times(blk[iVar * nvar + jVar], inverse[jVar * nvar + (e % nvar)]))
            ELSE inverse[e]],
         nvar, iVar, jVar + 1)

\* The row left undivided.
MatrixInverse_RowOver_Undivided(blk, inverse, nvar, iVar) == inverse

\* inverse[iVar*nvar+kVar] /= blk[iVar*nvar+iVar]
MatrixInverse_RowOver(blk, inverse, nvar, iVar) ==
  [e \in DOMAIN inverse |->
     IF e \div nvar = iVar
     THEN Over(inverse[e], blk[iVar * nvar + iVar])
     ELSE inverse[e]]

RECURSIVE MatrixInverse_Backwards(_, _, _, _)
\* for (iVar = nvar-1; iVar >= 0; iVar--)
MatrixInverse_Backwards(blk, inverse, nvar, iVar) ==
  IF iVar < 0 THEN inverse
  ELSE MatrixInverse_Backwards(
         blk,
         MatrixInverse_RowOver(
           blk,
           MatrixInverse_RowMinus(blk, inverse, nvar, iVar, iVar + 1),
           nvar, iVar),
         nvar, iVar - 1)

\* The identity the inverse starts from: ScalarType(iVar==jVar).
Identity(nvar) ==
  [e \in 0..(nvar * nvar - 1) |->
     ScalarType(IF e \div nvar = e % nvar THEN 1 ELSE 0)]

\* MatrixInverse(matrix, inverse) of the build without MKL: the scratch block
\* and the inverse it leaves.
MatrixInverse_Run(mat, nvar) ==
  LET up == MatrixInverse_Upper([block |-> mat, inverse |-> Identity(nvar)], nvar, 1, 0)
  IN [block |-> up.block,
      inverse |-> MatrixInverse_Backwards(up.block, up.inverse, nvar, nvar - 1)]

MatrixInverse(mat, nvar) == MatrixInverse_Run(mat, nvar).inverse

\* The transpose of a dense nvar x nvar block.
Transposed(blk, nvar) ==
  [e \in DOMAIN blk |-> blk[(e % nvar) * nvar + (e \div nvar)]]

RECURSIVE DotRow(_, _, _, _, _, _)
\* sum over jVar < n of matrix[mb + iVar*nvar + jVar] * vector[vb + jVar], in
\* the order of the loop
DotRow(mat, mb, v, vb, nvar, n) ==
  IF n = 0 THEN ScalarType(0)
  ELSE Plus(DotRow(mat, mb, v, vb, nvar, n - 1),
            Times(mat[mb + n - 1], v[vb + n - 1]))

\* product = matrix * vector for the dense block at mat[mb..] and the
\* vector block at v[vb..].
DenseMatrixVectorProduct(mat, mb, v, vb, nvar) ==
  [iVar \in 0..(nvar - 1) |-> DotRow(mat, mb + iVar * nvar, v, vb, nvar, nvar)]

\* ------------------------------------------------------------------------
\* The Jacobi preconditioner
\* ------------------------------------------------------------------------

BuildJacobiPreconditionerName == "BuildJacobiPreconditioner"

ComputeJacobiPreconditionerName == "ComputeJacobiPreconditioner"

\* The history of the builds of a matrix: the last build and its argument,
\* the applies before it, whether BuildJacobiPreconditioner has been called,
\* and the build that wrote invM last with its argument.
NoBuild ==
  [op |-> "none", transposed |-> FALSE, round |-> 0, jacobi |-> FALSE,
   invOp |-> "none", invTransposed |-> FALSE]

\* No preconditioner has been built.
NoBuilds(m) ==
  /\ nBuilds = [p \in 0..(m.size - 1) |-> 0]
  /\ lastBuild = [p \in 0..(m.size - 1) |-> NoBuild]

\* No chain has been discovered: the vectors of the object are empty.
NoLinelets(m) ==
  /\ nLinelet = [p \in 0..(m.size - 1) |-> 0]
  /\ LineletBool = [p \in 0..(m.size - 1) |-> Arr(<<>>)]
  /\ LineletPoint = [p \in 0..(m.size - 1) |-> Arr(<<>>)]
  /\ LineletUpper = [p \in 0..(m.size - 1) |-> Arr(<<>>)]
  /\ LineletInvDiag = [p \in 0..(m.size - 1) |-> Arr(<<>>)]
  /\ LineletVector = [p \in 0..(m.size - 1) |-> Arr(<<>>)]
  /\ max_nElem = [p \in 0..(m.size - 1) |-> 0]
  /\ Global_nPoints = [p \in 0..(m.size - 1) |-> 0]
  /\ MeanPoints = [p \in 0..(m.size - 1) |-> 0]
  /\ reduced = [p \in 0..(m.size - 1) |-> <<>>]
  /\ growth = [p \in 0..(m.size - 1) |-> <<>>]
  /\ thomas = [p \in 0..(m.size - 1) |-> FALSE]

\* The builds that store inverses in invM.
WritesInvM(op) == op \in {"BuildJacobiPreconditioner", "BuildILUPreconditioner"}

\* Rank p has built the preconditioner op.
Built(p, op, transposed) ==
  /\ nBuilds' = [nBuilds EXCEPT ![p] = @ + 1]
  /\ lastBuild' = [lastBuild EXCEPT ![p] =
                  [op |-> op, transposed |-> transposed, round |-> round[p],
                   jacobi |-> @.jacobi \/ op = BuildJacobiPreconditionerName,
                   invOp |-> IF WritesInvM(op) THEN op ELSE @.invOp,
                   invTransposed |->
                     IF WritesInvM(op) THEN transposed ELSE @.invTransposed]]

\* The dense block of nvar x nvar scalars at mat[mb..].
GetBlock(mat, mb, nvar) == [e \in 0..(nvar * nvar - 1) |-> mat[mb + e]]

\* arr with the block blk written at arr[ab..].
SetBlock(arr, ab, blk) ==
  [k \in DOMAIN arr |->
     IF k >= ab /\ k < ab + ALen(blk) THEN blk[k - ab] ELSE arr[k]]

\* The request to transpose ignored.
InverseDiagonalBlock_Untransposed(p, mat, iPoint, transpose) ==
  MatrixInverse_Run(GetBlock(mat, mat_begin(p, dia_ptr[p].a[iPoint]), nVar[p]),
                    nVar[p])

\* InverseDiagonalBlock(iPoint, invBlock, transpose): the scratch block and
\* the inverse of the diagonal block of row iPoint, transposed on request.
InverseDiagonalBlock(p, mat, iPoint, transpose) ==
  LET blk == GetBlock(mat, mat_begin(p, dia_ptr[p].a[iPoint]), nVar[p])
  IN MatrixInverse_Run(IF transpose THEN Transposed(blk, nVar[p]) ELSE blk, nVar[p])

RECURSIVE BuildJacobiPreconditioner_Loop(_, _, _, _, _)
\* for (iPoint = 0; iPoint < nPointDomain; iPoint++)
\*   InverseDiagonalBlock(iPoint, &(invM[iPoint*nVar*nVar]), transpose)
BuildJacobiPreconditioner_Loop(p, st, iPoint, n, transpose) ==
  IF iPoint >= n THEN st
  ELSE LET r == InverseDiagonalBlock(p, matrix[p].a, iPoint, transpose)
       IN BuildJacobiPreconditioner_Loop(
            p,
            [invM |-> SetBlock(st.invM, iPoint * nVar[p] * nVar[p], r.inverse),
             block |-> r.block],
            iPoint + 1, n, transpose)

\* The accesses of the Jacobi build and apply stay inside matrix, invM, and
\* the two vectors.
JacobiInBounds(p) ==
  /\ ~invM[p].null
  /\ nPointDomain[p] * nVar[p] * nVar[p] <= ALen(invM[p].a)
  /\ \A iPoint \in 0..(nPointDomain[p] - 1) :
       mat_begin(p, dia_ptr[p].a[iPoint]) + nVar[p] * nVar[p] <= ALen(matrix[p].a)

BuildJacobiPreconditioner(p, transpose) ==
  /\ ~Aborted
  /\ pc[p] \in {"idle", "done"}
  /\ nBuilds[p] < MaxBuilds
  /\ Built(p, BuildJacobiPreconditionerName, transpose)
  /\ IF ~JacobiInBounds(p)
     THEN /\ Undefined(p)
          /\ UNCHANGED objVars
     ELSE LET st == BuildJacobiPreconditioner_Loop(
                      p, [invM |-> invM[p].a, block |-> block[p].a],
                      0, nPointDomain[p], transpose)
          IN /\ SetObject(p, [Object(p) EXCEPT !.invM = Pointer(st.invM),
                                               !.block = Pointer(st.block)])
             /\ UNCHANGED <<pc, ub>>
  /\ UNCHANGED <<quietVars, x, callVars, editVars, lineletVars>>

\* prod after the loop of ComputeJacobiPreconditioner: at every owned point
\* the cached inverse times the block of vec.
ComputeJacobiPreconditioner_Loop(p, v, prod) ==
  [k \in DOMAIN prod |->
     IF k \div nVar[p] < nPointDomain[p]
     THEN DenseMatrixVectorProduct(invM[p].a, (k \div nVar[p]) * nVar[p] * nVar[p],
                                   v, (k \div nVar[p]) * nVar[p], nVar[p])[k % nVar[p]]
     ELSE prod[k]]

\* ComputeJacobiPreconditioner up to the return of its InitiateComms call.
ComputeJacobiPreconditioner(p) ==
  /\ operation = ComputeJacobiPreconditionerName
  /\ round[p] < MaxProducts
  /\ IF \/ ~JacobiInBounds(p)
        \/ nPointDomain[p] * nVar[p] > ALen(vec[p].a)
        \/ nPointDomain[p] * nVar[p] > ALen(x[p])
     THEN /\ ~Aborted
          /\ pc[p] \in {"idle", "done"}
          /\ Undefined(p)
          /\ UNCHANGED <<quietVars, x, matVars>>
     ELSE LET prod == ComputeJacobiPreconditioner_Loop(p, vec[p].a, x[p])
          IN /\ x' = [x EXCEPT ![p] = prod]
             /\ InitiateComms(p, prod, SOLUTION_MATRIX)

\* The CompleteComms call that ends ComputeJacobiPreconditioner.
ComputeJacobiPreconditioner_CompleteComms(p) ==
  /\ operation = ComputeJacobiPreconditionerName
  /\ CompleteComms_Enter(p, SOLUTION_MATRIX)

\* ------------------------------------------------------------------------
\* The ILU preconditioner
\* ------------------------------------------------------------------------

BuildILUPreconditionerName == "BuildILUPreconditioner"

ComputeILUPreconditionerName == "ComputeILUPreconditioner"

\* &ILU_matrix[index*nVar*nEqn]
ilu_begin(p, index) == index * nVar[p] * nEqn[p]

\* The nonzero index of block (block_i, block_j) of the ILU pattern, or -1.
ILUIndex(p, block_i_, block_j_) ==
  LET S == {index \in row_ptr_ilu[p].a[block_i_]..(row_ptr_ilu[p].a[block_i_ + 1] - 1) :
              col_ind_ilu[p].a[index] = block_j_}
  IN IF S = {} THEN -1 ELSE CHOOSE index \in S : TRUE

\* SetBlock_ILUMatrix(block_i, block_j, val_block): the block is written if
\* the ILU pattern has it.
SetBlock_ILUMatrix(p, ilu, block_i_, block_j_, blk) ==
  LET index == ILUIndex(p, block_i_, block_j_)
  IN IF index = -1 THEN ilu ELSE SetBlock(ilu, index * nVar[p] * nVar[p], blk)

\* SetBlockTransposed_ILUMatrix(block_i, block_j, val_block)
SetBlockTransposed_ILUMatrix(p, ilu, block_i_, block_j_, blk) ==
  SetBlock_ILUMatrix(p, ilu, block_i_, block_j_, Transposed(blk, nVar[p]))

\* MatrixMatrixProduct(matrix_a, matrix_b, product) of nVar x nVar blocks.
MatrixMatrixProduct(a, b, nvar) ==
  [e \in 0..(nvar * nvar - 1) |->
     DotRow(a, (e \div nvar) * nvar,
            [kVar \in 0..(nvar - 1) |-> b[kVar * nvar + (e % nvar)]], 0, nvar, nvar)]

\* The minuend alone.
MatrixSubtraction_Minuend(a, b) == a

\* MatrixSubtraction(matrix_a, matrix_b, product)
MatrixSubtraction(a, b) == [e \in DOMAIN a |-> Minus(a[e], b[e])]

\* MatrixVectorProductSub(matrix, vector, product): product -= matrix*vector
\* for the block at mat[mb..], the vector block at v[vb..] and the nvar
\* scalars prod.
MatrixVectorProductSub(mat, mb, v, vb, prod, nvar) ==
  [iVar \in 0..(nvar - 1) |->
     Minus(prod[iVar], DotRow(mat, mb + iVar * nvar, v, vb, nvar, nvar))]

\* ILU0, direct copy: ILU_matrix[iVar] = matrix[iVar] for iVar < nnz*nVar*nVar.
BuildILUPreconditioner_Copy(p, ilu, mat) ==
  [k \in DOMAIN ilu |-> IF k < nnz[p] * nVar[p] * nVar[p] THEN mat[k] ELSE ilu[k]]

\* ILUn: ILU_matrix[iVar] = 0.0 for iVar < nnz_ilu*nVar*nVar.
BuildILUPreconditioner_Clear(p, ilu) ==
  [k \in DOMAIN ilu |->
     IF k < nnz_ilu[p] * nVar[p] * nVar[p] THEN ScalarType(0) ELSE ilu[k]]

RECURSIVE BuildILUPreconditioner_Scatter(_, _, _, _, _, _)
\* for (iPoint < nPointDomain) for (index = row_ptr[iPoint]; ...): the block
\* is set, transposed or not, in the ILU matrix.
BuildILUPreconditioner_Scatter(p, ilu, mat, transposed, iPoint, index) ==
  IF iPoint >= nPointDomain[p] THEN ilu
  ELSE IF index < row_ptr[p].a[iPoint]
  THEN BuildILUPreconditioner_Scatter(p, ilu, mat, transposed, iPoint,
                                      row_ptr[p].a[iPoint])
  ELSE IF index >= row_ptr[p].a[iPoint + 1]
  THEN BuildILUPreconditioner_Scatter(p, ilu, mat, transposed, iPoint + 1, index)
  ELSE LET jPoint == col_ind[p].a[index]
           Block_ij == GetBlock(mat, mat_begin(p, index), nVar[p])
       IN BuildILUPreconditioner_Scatter(
            p,
            IF transposed
            THEN SetBlockTransposed_ILUMatrix(p, ilu, jPoint, iPoint, Block_ij)
            ELSE SetBlock_ILUMatrix(p, ilu, iPoint, jPoint, Block_ij),
            mat, transposed, iPoint, index + 1)

\* InverseDiagonalBlock_ILUMatrix(block_i, invBlock) with
\* invBlock = &invM[block_i*nVar*nVar].
InverseDiagonalBlock_ILUMatrix(p, st, iPoint) ==
  LET r == MatrixInverse_Run(
             GetBlock(st.ILU_matrix,
                      dia_ptr_ilu[p].a[iPoint] * nVar[p] * nVar[p], nVar[p]),
             nVar[p])
  IN [st EXCEPT !.invM = SetBlock(@, iPoint * nVar[p] * nVar[p], r.inverse),
                !.block = r.block]

RECURSIVE BuildILUPreconditioner_Upper(_, _, _, _, _)
\* for (index_ = dia_ptr_ilu[jPoint]+1; index_ < row_ptr_ilu[jPoint+1]; index_++)
\*   if Aik exists: Aik -= Aij*inv(Ajj)*Ajk
BuildILUPreconditioner_Upper(p, st, iPoint, jPoint, index_) ==
  IF index_ >= row_ptr_ilu[p].a[jPoint + 1] THEN st
  ELSE LET kPoint == col_ind_ilu[p].a[index_]
           ik == ILUIndex(p, iPoint, kPoint)
           Block_jk == GetBlock(st.ILU_matrix, ilu_begin(p, index_), nVar[p])
           prod == MatrixMatrixProduct(st.block_weight, Block_jk, nVar[p])
       IN BuildILUPreconditioner_Upper(
            p,
            TheOnly({IF ik = -1 THEN s
                     ELSE [s EXCEPT
                             !.block = prod,
                             !.ILU_matrix =
                                SetBlock(@, ik * nVar[p] * nVar[p],
                                         MatrixSubtraction(
                                           GetBlock(@, ik * nVar[p] * nVar[p], nVar[p]),
                                           prod))] :
                     s \in {st}}),
            iPoint, jPoint, index_ + 1)

RECURSIVE BuildILUPreconditioner_Lower(_, _, _, _)
\* for (index = row_ptr_ilu[iPoint]; index < dia_ptr_ilu[iPoint]; index++)
BuildILUPreconditioner_Lower(p, st, iPoint, index) ==
  IF index >= dia_ptr_ilu[p].a[iPoint] THEN st
  ELSE LET jPoint == col_ind_ilu[p].a[index]
           weight == MatrixMatrixProduct(
                       GetBlock(st.ILU_matrix, ilu_begin(p, index), nVar[p]),
                       GetBlock(st.invM, jPoint * nVar[p] * nVar[p], nVar[p]),
                       nVar[p])
           up == BuildILUPreconditioner_Upper(
                   p, [st EXCEPT !.block_weight = weight], iPoint, jPoint,
                   dia_ptr_ilu[p].a[jPoint] + 1)
       IN BuildILUPreconditioner_Lower(
            p,
            TheOnly({[s EXCEPT !.ILU_matrix = SetBlock(@, ilu_begin(p, index), weight)] :
                     s \in {up}}),
            iPoint, index + 1)

RECURSIVE BuildILUPreconditioner_Rows(_, _, _)
\* for (iPoint = 1; iPoint < nPointDomain; iPoint++)
BuildILUPreconditioner_Rows(p, st, iPoint) ==
  IF iPoint >= nPointDomain[p] THEN st
  ELSE BuildILUPreconditioner_Rows(
         p,
         TheOnly({BuildILUPreconditioner_Lower(
                    p, s, iPoint, row_ptr_ilu[p].a[iPoint]) :
                  s \in {InverseDiagonalBlock_ILUMatrix(p, st, iPoint - 1)}}),
         iPoint + 1)

\* The columns of the blocks the transposed scatter sets rows of.
ScatteredRows(p) ==
  {col_ind[p].a[index] : index \in 0..(row_ptr[p].a[nPointDomain[p]] - 1)}

\* The points whose diagonal block BuildILUPreconditioner inverts into invM:
\* iPoint-1 for every iPoint of the loop from 1 below nPointDomain, and
\* nPointDomain-1 after the loop.  That last index is evaluated in unsigned
\* long arithmetic; a value in the upper half of the range is written as
\* its two's complement, so the ULONG_MAX of nPointDomain = 0 is -1.
BuildILUPreconditioner_DiagonalPoints(p) ==
  {iPoint - 1 : iPoint \in 1..(nPointDomain[p] - 1)} \cup {nPointDomain[p] - 1}

\* The points whose diagonal block and invM block the backward loop of
\* ComputeILUPreconditioner reads: iPoint is a long, so the loop from
\* nPointDomain-1 down to 0 is empty when nPointDomain is 0.
ComputeILUPreconditioner_DiagonalPoints(p) ==
  {iPoint \in -1..(nPointDomain[p] - 1) : iPoint >= 0}

\* The accesses of the ILU build stay inside the arrays: the buffers are
\* allocated, the diagonal blocks inverted are blocks of owned points,
\* the copy fits, the blocks of the ILU pattern are
\* inside ILU_matrix, and the transposed scatter looks up rows of the ILU
\* pattern only.
ILUBuildInBounds(p, transposed) ==
  /\ ~ILU_matrix[p].null
  /\ ~invM[p].null
  /\ BuildILUPreconditioner_DiagonalPoints(p) \subseteq 0..(nPointDomain[p] - 1)
  /\ nPointDomain[p] * nVar[p] * nVar[p] <= ALen(invM[p].a)
  /\ (ilu_fill_in[p] = 0 /\ ~transposed) =>
       /\ nnz[p] * nVar[p] * nVar[p] <= ALen(ILU_matrix[p].a)
       /\ nnz[p] * nVar[p] * nVar[p] <= ALen(matrix[p].a)
  /\ nnz_ilu[p] * nVar[p] * nVar[p] <= ALen(ILU_matrix[p].a)
  /\ \A index \in 0..(nnz_ilu[p] - 1) :
       ilu_begin(p, index) + nVar[p] * nVar[p] <= ALen(ILU_matrix[p].a)
  /\ (transposed /\ nPointDomain[p] >= 1) =>
       \A jPoint \in ScatteredRows(p) : jPoint + 1 < ALen(row_ptr_ilu[p].a)

\* The buffers after BuildILUPreconditioner(transposed) when ILU_matrix
\* holds ilu at the call.
BuildILUPreconditioner_From(p, transposed, ilu) ==
  LET copied ==
        IF ilu_fill_in[p] = 0 /\ ~transposed
        THEN BuildILUPreconditioner_Copy(p, ilu, matrix[p].a)
        ELSE BuildILUPreconditioner_Scatter(
               p,
               IF ilu_fill_in[p] > 0
               THEN BuildILUPreconditioner_Clear(p, ilu)
               ELSE ilu,
               matrix[p].a, transposed, 0, 0)
      st == BuildILUPreconditioner_Rows(
              p,
              [ILU_matrix |-> copied, invM |-> invM[p].a,
               block_weight |-> block_weight[p].a, block |-> block[p].a],
              1)
  IN InverseDiagonalBlock_ILUMatrix(p, st, nPointDomain[p] - 1)

\* The buffers after BuildILUPreconditioner(transposed).
BuildILUPreconditioner_Run(p, transposed) ==
  BuildILUPreconditioner_From(p, transposed, ILU_matrix[p].a)

BuildILUPreconditioner(p, transposed) ==
  /\ ~Aborted
  /\ pc[p] \in {"idle", "done"}
  /\ nBuilds[p] < MaxBuilds
  /\ Built(p, BuildILUPreconditionerName, transposed)
  /\ IF ~ILUBuildInBounds(p, transposed)
     THEN /\ Undefined(p)
          /\ UNCHANGED objVars
     ELSE LET st == BuildILUPreconditioner_Run(p, transposed)
          IN /\ SetObject(p, [Object(p) EXCEPT
                                !.ILU_matrix = Pointer(st.ILU_matrix),
                                !.invM = Pointer(st.invM),
                                !.block_weight = Pointer(st.block_weight),
                                !.block = Pointer(st.block)])
             /\ UNCHANGED <<pc, ub>>
  /\ UNCHANGED <<quietVars, x, callVars, editVars, lineletVars>>

RECURSIVE ComputeILUPreconditioner_ForwardRow(_, _, _, _)
\* for (index = row_ptr_ilu[iPoint]; index < dia_ptr_ilu[iPoint]; index++)
\*   MatrixVectorProductSub(Block_ij, &prod[jPoint*nVar], &prod[iPoint*nVar])
ComputeILUPreconditioner_ForwardRow(p, prod, iPoint, index) ==
  IF index >= dia_ptr_ilu[p].a[iPoint] THEN prod
  ELSE LET jPoint == col_ind_ilu[p].a[index]
           row == MatrixVectorProductSub(
                    ILU_matrix[p].a, ilu_begin(p, index), prod, jPoint * nVar[p],
                    [iVar \in 0..(nVar[p] - 1) |-> prod[iPoint * nVar[p] + iVar]],
                    nVar[p])
       IN ComputeILUPreconditioner_ForwardRow(
            p, SetBlock(prod, iPoint * nVar[p], row), iPoint, index + 1)

RECURSIVE ComputeILUPreconditioner_Forward(_, _, _)
\* for (iPoint = 1; iPoint < nPointDomain; iPoint++)
ComputeILUPreconditioner_Forward(p, prod, iPoint) ==
  IF iPoint >= nPointDomain[p] THEN prod
  ELSE ComputeILUPreconditioner_Forward(
         p,
         ComputeILUPreconditioner_ForwardRow(p, prod, iPoint, row_ptr_ilu[p].a[iPoint]),
         iPoint + 1)

RECURSIVE ComputeILUPreconditioner_BackwardRow(_, _, _, _, _)
\* for (index = dia_ptr_ilu[iPoint]+1; index < row_ptr_ilu[iPoint+1]; index++)
\*   if (jPoint < nPointDomain) MatrixVectorProductSub(Block_ij, &prod[jPoint*nVar], sum_vector)
ComputeILUPreconditioner_BackwardRow(p, prod, sum, index, last) ==
  IF index >= last THEN sum
  ELSE LET jPoint == col_ind_ilu[p].a[index]
       IN ComputeILUPreconditioner_BackwardRow(
            p, prod,
            IF jPoint < nPointDomain[p]
            THEN MatrixVectorProductSub(ILU_matrix[p].a, ilu_begin(p, index),
                                        prod, jPoint * nVar[p], sum, nVar[p])
            ELSE sum,
            index + 1, last)

RECURSIVE ComputeILUPreconditioner_Backward(_, _, _)
\* for (iPoint = nPointDomain-1; iPoint >= 0; iPoint--)
ComputeILUPreconditioner_Backward(p, st, iPoint) ==
  IF iPoint < 0 THEN st
  ELSE LET sum == ComputeILUPreconditioner_BackwardRow(
                    p, st.prod,
                    [iVar \in 0..(nVar[p] - 1) |-> st.prod[iPoint * nVar[p] + iVar]],
                    dia_ptr_ilu[p].a[iPoint] + 1, row_ptr_ilu[p].a[iPoint + 1])
       IN ComputeILUPreconditioner_Backward(
            p,
            [prod |-> SetBlock(st.prod, iPoint * nVar[p],
                               DenseMatrixVectorProduct(
                                 invM[p].a, iPoint * nVar[p] * nVar[p], sum, 0, nVar[p])),
             sum_vector |-> sum],
            iPoint - 1)

\* prod and sum_vector after the substitutions of ComputeILUPreconditioner.
ComputeILUPreconditioner_Run(p, v, prod) ==
  ComputeILUPreconditioner_Backward(
    p,
    [prod |-> ComputeILUPreconditioner_Forward(
                p,
                [k \in DOMAIN prod |->
                   IF k < nPointDomain[p] * nVar[p] THEN v[k] ELSE prod[k]],
                1),
     sum_vector |-> sum_vector[p].a],
    nPointDomain[p] - 1)

\* The accesses of the ILU apply stay inside the arrays.
ILUApplyInBounds(p) ==
  /\ ~ILU_matrix[p].null
  /\ ~invM[p].null
  /\ nPointDomain[p] * nVar[p] * nVar[p] <= ALen(invM[p].a)
  /\ \A index \in 0..(nnz_ilu[p] - 1) :
       ilu_begin(p, index) + nVar[p] * nVar[p] <= ALen(ILU_matrix[p].a)
  /\ nPointDomain[p] * nVar[p] <= ALen(vec[p].a)
  /\ nPointDomain[p] * nVar[p] <= ALen(x[p])

\* ComputeILUPreconditioner up to the return of its InitiateComms call.
ComputeILUPreconditioner(p) ==
  /\ operation = ComputeILUPreconditionerName
  /\ round[p] < MaxProducts
  /\ IF ~ILUApplyInBounds(p)
     THEN /\ ~Aborted
          /\ pc[p] \in {"idle", "done"}
          /\ Undefined(p)
          /\ UNCHANGED <<quietVars, x, matVars>>
     ELSE LET st == ComputeILUPreconditioner_Run(p, vec[p].a, x[p])
          IN /\ x' = [x EXCEPT ![p] = st.prod]
             /\ SetObject(p, [Object(p) EXCEPT !.sum_vector = Pointer(st.sum_vector)])
             /\ InitiateComms_Exchange(p, st.prod, SOLUTION_MATRIX)
             /\ UNCHANGED <<callVars, editVars, precVars, lineletVars>>

\* The CompleteComms call that ends ComputeILUPreconditioner.
ComputeILUPreconditioner_CompleteComms(p) ==
  /\ operation = ComputeILUPreconditionerName
  /\ CompleteComms_Enter(p, SOLUTION_MATRIX)

\* ------------------------------------------------------------------------
\* The linelet preconditioner
\* ------------------------------------------------------------------------

BuildLineletPreconditionerName == "BuildLineletPreconditioner"

ComputeLineletPreconditionerName == "ComputeLineletPreconditioner"

\* Kinds of boundary condition of a marker.
HEAT_FLUX == "HEAT_FLUX"

ISOTHERMAL == "ISOTHERMAL"

EULER_WALL == "EULER_WALL"

DISPLACEMENT_BOUNDARY == "DISPLACEMENT_BOUNDARY"

FAR_FIELD == "FAR_FIELD"

\* config->GetnMarker_All()
GetnMarker_All == Len(config.Marker_All_KindBC)

\* config->GetMarker_All_KindBC(iMarker), iMarker from 0
GetMarker_All_KindBC(iMarker) == config.Marker_All_KindBC[iMarker + 1]

\* geometry->nVertex[iMarker] of rank p
nVertex(p, iMarker) == ALen(mesh.vertex[p][iMarker + 1])

\* geometry->vertex[iMarker][iVertex]->GetNode() of rank p
GetNode(p, iMarker, iVertex) == mesh.vertex[p][iMarker + 1][iVertex]

\* The points geometry->node[iPoint] lists as neighbours of iPoint.
NodePoints(p, iPoint) ==
  {jPoint \in 0..(mesh.nPoint[p] - 1) :
     jPoint # iPoint /\ Linked(mesh, p, iPoint, jPoint)}

\* geometry->node[iPoint]->GetnPoint()
GetnPoint(p, iPoint) == Cardinality(NodePoints(p, iPoint))

\* geometry->node[iPoint]->GetPoint(iNode): the neighbours in ascending order
GetPoint(p, iPoint, iNode) == Nth(NodePoints(p, iPoint), iNode)

\* geometry->node[jPoint]->GetDomain(): whether rank p owns the point
GetDomain(p, jPoint) == jPoint < mesh.nPointDomain[p]

\* geometry->node[iPoint]->GetVolume()
GetVolume(p, iPoint) == ScalarType(mesh.volume[p][iPoint])

\* The length of the normal of the edge FindEdge(iPoint, jPoint) finds.
EdgeArea(p, iPoint, jPoint) ==
  ScalarType(mesh.area[p][IF iPoint < jPoint THEN <<iPoint, jPoint>>
                          ELSE <<jPoint, iPoint>>])

\* a < b of two scalars: false when either is NaN.
Less(a, b) ==
  IF a = NaN \/ b = NaN THEN FALSE
  ELSE IF IsFinite(a) /\ IsFinite(b) THEN a[1] * b[2] < b[1] * a[2]
  ELSE IF ~IsFinite(a) /\ ~IsFinite(b) THEN a[1] < b[1]
  ELSE IF ~IsFinite(a) THEN a[1] < 0
  ELSE b[1] > 0

\* std::max(a, b)
max(a, b) == IF Less(a, b) THEN b ELSE a

\* su2double alpha = 0.9
alpha == Frac(9, 10)

\* weight = 0.5*area*((1.0/volume_iPoint)+(1.0/volume_jPoint))
EdgeWeight(p, iPoint, jPoint) ==
  Times(Times(Frac(1, 2), EdgeArea(p, iPoint, jPoint)),
        Plus(Over(ScalarType(1), GetVolume(p, iPoint)),
             Over(ScalarType(1), GetVolume(p, jPoint))))

\* Whether marker iMarker seeds chains.
SeedsLinelets(iMarker) ==
  \/ GetMarker_All_KindBC(iMarker) = HEAT_FLUX
  \/ GetMarker_All_KindBC(iMarker) = ISOTHERMAL
  \/ GetMarker_All_KindBC(iMarker) = EULER_WALL
  \/ GetMarker_All_KindBC(iMarker) = DISPLACEMENT_BOUNDARY

RECURSIVE BuildLineletPreconditioner_Count(_, _)
\* nLinelet after the markers below iMarker: nLinelet += nVertex[iMarker]
BuildLineletPreconditioner_Count(p, iMarker) ==
  IF iMarker = 0 THEN 0
  ELSE BuildLineletPreconditioner_Count(p, iMarker - 1)
         + (IF SeedsLinelets(iMarker - 1) THEN nVertex(p, iMarker - 1) ELSE 0)

\* v.resize(n, val) of a vector
Resize(v, n, val) == [i \in 0..(n - 1) |-> IF i < ALen(v) THEN v[i] ELSE val]

\* v.push_back(e) of a vector
PushBack(v, e) == [i \in 0..ALen(v) |-> IF i < ALen(v) THEN v[i] ELSE e]

\* The seeds in the order the markers and their vertices list them.
RECURSIVE BuildLineletPreconditioner_Seeds(_, _, _)
BuildLineletPreconditioner_Seeds(p, iMarker, iVertex) ==
  IF iMarker >= GetnMarker_All THEN <<>>
  ELSE IF ~SeedsLinelets(iMarker) \/ iVertex >= nVertex(p, iMarker)
  THEN BuildLineletPreconditioner_Seeds(p, iMarker + 1, 0)
  ELSE <<GetNode(p, iMarker, iVertex)>>
         \o BuildLineletPreconditioner_Seeds(p, iMarker, iVertex + 1)

RECURSIVE BuildLineletPreconditioner_Seed(_, _, _)
\* LineletPoint[iLinelet].push_back(iPoint); check_Point[iPoint] = false;
\* iLinelet++
BuildLineletPreconditioner_Seed(st, seeds, iLinelet) ==
  IF iLinelet >= Len(seeds) THEN st
  ELSE BuildLineletPreconditioner_Seed(
         [st EXCEPT
            !.LineletPoint[iLinelet] = PushBack(@, seeds[iLinelet + 1]),
            !.check_Point[seeds[iLinelet + 1]] = FALSE],
         seeds, iLinelet + 1)

RECURSIVE BuildLineletPreconditioner_MaxWeight(_, _, _, _, _)
\* max_weight after the neighbours below iNode, from the value weights
\* holds after the others
BuildLineletPreconditioner_MaxWeight(p, check_Point, iPoint, iNode, weights) ==
  IF iNode >= GetnPoint(p, iPoint) THEN weights
  ELSE LET jPoint == GetPoint(p, iPoint, iNode)
       IN TheOnly(
            {BuildLineletPreconditioner_MaxWeight(
               p, check_Point, iPoint, iNode + 1,
               IF check_Point[jPoint] /\ GetDomain(p, jPoint)
               THEN max(max_weight, weight) ELSE max_weight) :
               max_weight \in {weights},
               weight \in {EdgeWeight(p, iPoint, jPoint)}})

RECURSIVE BuildLineletPreconditioner_Faces(_, _, _, _, _, _)
\* add_point, next_Point and counter after the neighbours below iNode
BuildLineletPreconditioner_Faces(p, st, iLinelet, index_Point, max_weight, iNode) ==
  LET iPoint == st.LineletPoint[iLinelet][index_Point]
  IN IF iNode = 0
     THEN [add_point |-> FALSE, counter |-> 0,
           next_Point |-> IF GetnPoint(p, iPoint) > 0
                          THEN GetPoint(p, iPoint, 0) ELSE 0]
     ELSE LET jPoint == GetPoint(p, iPoint, iNode - 1)
              was == BuildLineletPreconditioner_Faces(p, st, iLinelet, index_Point,
                                                      max_weight, iNode - 1)
          IN IF /\ st.check_Point[jPoint]
                /\ \E weight \in {EdgeWeight(p, iPoint, jPoint)} :
                     Less(alpha, Over(weight, max_weight))
                /\ GetDomain(p, jPoint)
                /\ \/ index_Point = 0
                   \/ (index_Point > 0
                       /\ jPoint # st.LineletPoint[iLinelet][index_Point - 1])
             THEN [add_point |-> TRUE, next_Point |-> jPoint,
                   counter |-> was.counter + 1]
             ELSE was

\* No zone is isotropic.
BuildLineletPreconditioner_Isotropic_Never(counter) == FALSE

\* We have arrived to an isotropic zone: if (counter > 1) add_point = false
BuildLineletPreconditioner_Isotropic(counter) == counter > 1

\* One pass of the inner do-while of chain iLinelet at index_Point, as it is
\* added to the history: the point examined, the chain's last point, the
\* points with check_Point false, and the point appended (-1 if none).
BuildLineletPreconditioner_Pass(p, st, iLinelet, index_Point) ==
  LET chain == st.LineletPoint[iLinelet]
      iPoint == chain[index_Point]
  IN TheOnly(
       {[chain |-> iLinelet, tip |-> iPoint,
         last |-> chain[ALen(chain) - 1],
         visited |-> {j \in DOMAIN st.check_Point : ~st.check_Point[j]},
         appended |->
           IF faces.add_point /\ ~BuildLineletPreconditioner_Isotropic(faces.counter)
           THEN faces.next_Point ELSE -1] :
          faces \in
            {BuildLineletPreconditioner_Faces(p, st, iLinelet, index_Point,
                                              max_weight, GetnPoint(p, iPoint)) :
               max_weight \in
                 {BuildLineletPreconditioner_MaxWeight(p, st.check_Point, iPoint, 0,
                                                       ScalarType(0))}}})

RECURSIVE BuildLineletPreconditioner_Grow(_, _, _, _)
\* The inner do-while of chain iLinelet from index_Point on, from the state
\* states holds.  GetPoint(0) of a point without neighbours is undefined.
BuildLineletPreconditioner_Grow(p, states, iLinelet, index_Point) ==
  TheOnly(
    {IF pass.appended # -1
     THEN BuildLineletPreconditioner_Grow(
            p,
            [st EXCEPT
               !.growth = Append(@, pass),
               !.LineletPoint[iLinelet] = PushBack(@, pass.appended),
               !.check_Point[pass.appended] = FALSE],
            iLinelet, index_Point + 1)
     ELSE [st EXCEPT !.growth = Append(@, pass),
                     !.ub = @ \/ GetnPoint(p, pass.tip) = 0] :
       <<st, pass>> \in
         {<<now, BuildLineletPreconditioner_Pass(p, now, iLinelet, index_Point)>> :
            now \in {states}}})

\* The outer do-while left after its first chain.
BuildLineletPreconditioner_Linelets_Once(p, states, iLinelet) ==
  BuildLineletPreconditioner_Grow(p, states, iLinelet, 0)

RECURSIVE BuildLineletPreconditioner_Linelets(_, _, _)
\* The outer do-while: chain iLinelet, then iLinelet++ while below nLinelet
BuildLineletPreconditioner_Linelets(p, states, iLinelet) ==
  TheOnly(
    {IF iLinelet + 1 < ALen(grown.LineletPoint)
     THEN BuildLineletPreconditioner_Linelets(p, grown, iLinelet + 1)
     ELSE grown :
       grown \in {BuildLineletPreconditioner_Grow(p, states, iLinelet, 0)}})

\* The points of the chains.
LineletPoints(chains) ==
  UNION {{chains[iLinelet][iElem] : iElem \in DOMAIN chains[iLinelet]} :
           iLinelet \in DOMAIN chains}

\* The largest size of a chain (max_nElem of a partition with chains).
LongestLinelet(chains) ==
  CHOOSE n \in {ALen(chains[iLinelet]) : iLinelet \in DOMAIN chains} :
    \A iLinelet \in DOMAIN chains : ALen(chains[iLinelet]) <= n

RECURSIVE BuildLineletPreconditioner_LocalPoints(_, _)
\* Local_nPoints += LineletPoint[iLinelet].size() for the chains below n
BuildLineletPreconditioner_LocalPoints(chains, n) ==
  IF n = 0 THEN 0
  ELSE BuildLineletPreconditioner_LocalPoints(chains, n - 1) + ALen(chains[n - 1])

\* Where a rank waits in the two reductions of the build.
Allreduce_nPoints == "Allreduce_nPoints"

Allreduce_nLineLets == "Allreduce_nLineLets"

\* BuildLineletPreconditioner up to its first Allreduce: the chains are
\* seeded and grown, LineletBool and max_nElem set, and Local_nPoints is
\* passed to the reduction.  GetPoint(0) of a point without neighbours reads
\* past the end of an empty list: the rank stops there or goes on.
BuildLineletPreconditioner(p) ==
  /\ ~Aborted
  /\ pc[p] \in {"idle", "done"}
  /\ ~thomas[p]
  /\ nBuilds[p] < MaxBuilds
  /\ Built(p, BuildLineletPreconditionerName, FALSE)
  /\ \E n \in {BuildLineletPreconditioner_Count(p, GetnMarker_All)} :
       \E st \in
            {IF n # 0
             THEN BuildLineletPreconditioner_Linelets(
                    p,
                    BuildLineletPreconditioner_Seed(
                      [LineletPoint |-> Resize(LineletPoint[p], n, Arr(<<>>)),
                       check_Point |-> [iPoint \in 0..(nPoint[p] - 1) |-> TRUE],
                       growth |-> <<>>, ub |-> FALSE],
                      BuildLineletPreconditioner_Seeds(p, 0, 0), 0),
                    0)
             ELSE [LineletPoint |-> LineletPoint[p],
                   check_Point |-> [iPoint \in 0..(nPoint[p] - 1) |-> TRUE],
                   growth |-> <<>>, ub |-> FALSE]} :
         LET bools == Resize(LineletBool[p], nPoint[p], FALSE)
             Local_nPoints ==
               BuildLineletPreconditioner_LocalPoints(st.LineletPoint, n)
         IN /\ nLinelet' = [nLinelet EXCEPT ![p] = n]
            /\ LineletPoint' = [LineletPoint EXCEPT ![p] = st.LineletPoint]
            /\ LineletBool' = [LineletBool EXCEPT ![p] =
                                 IF n # 0
                                 THEN [iPoint \in DOMAIN bools |->
                                         bools[iPoint]
                                           \/ iPoint \in LineletPoints(st.LineletPoint)]
                                 ELSE bools]
            /\ max_nElem' = [max_nElem EXCEPT ![p] =
                               IF n # 0 THEN LongestLinelet(st.LineletPoint) ELSE 0]
            /\ growth' = [growth EXCEPT ![p] = st.growth]
            /\ reduced' = [reduced EXCEPT ![p] = Append(@, Local_nPoints)]
            /\ IF st.ub
               THEN /\ ub' = [ub EXCEPT ![p] = TRUE]
                    /\ \E next \in {"ub", Allreduce_nPoints} :
                         pc' = [pc EXCEPT ![p] = next]
               ELSE /\ pc' = [pc EXCEPT ![p] = Allreduce_nPoints]
                    /\ UNCHANGED ub
  /\ UNCHANGED quietVars
  /\ UNCHANGED <<x, objVars, callVars, editVars>>
  /\ UNCHANGED <<LineletUpper, LineletInvDiag, LineletVector, Global_nPoints,
                 MeanPoints, thomas>>

\* Whether every rank has entered the reduction rank p waits in.
AllreduceEntered(p) == \A q \in Ranks : Len(reduced[q]) >= Len(reduced[p])

RECURSIVE AllreduceSum(_, _)
\* MPI_SUM over the ranks below n of what each passed to reduction k
AllreduceSum(k, n) ==
  IF n = 0 THEN 0 ELSE AllreduceSum(k, n - 1) + reduced[n - 1][k]

\* The first Allreduce returns and Local_nLineLets is passed to the second.
BuildLineletPreconditioner_nPoints(p) ==
  /\ ~Aborted
  /\ pc[p] = Allreduce_nPoints
  /\ AllreduceEntered(p)
  /\ Global_nPoints' = [Global_nPoints EXCEPT ![p] =
                          AllreduceSum(Len(reduced[p]), mesh.size)]
  /\ reduced' = [reduced EXCEPT ![p] = Append(@, nLinelet[p])]
  /\ pc' = [pc EXCEPT ![p] = Allreduce_nLineLets]
  /\ UNCHANGED <<quietVars, ub>>
  /\ UNCHANGED <<x, objVars, callVars, editVars, precVars>>
  /\ UNCHANGED <<nLinelet, LineletBool, LineletPoint, LineletUpper,
                 LineletInvDiag, LineletVector, max_nElem, MeanPoints, growth,
                 thomas>>

\* unsigned short
USHRT_MAX == 65535

\* The second Allreduce returns; MeanPoints is computed, the buffers of the
\* Thomas pass are resized and the build returns.  With no chain on any
\* partition the quotient is 0.0/0.0, a NaN, and its conversion to an
\* integer is undefined: MeanPoints is any value, and the rank goes on.
BuildLineletPreconditioner_nLineLets(p) ==
  /\ ~Aborted
  /\ pc[p] = Allreduce_nLineLets
  /\ AllreduceEntered(p)
  /\ LET Global_nLineLets == AllreduceSum(Len(reduced[p]), mesh.size)
         quotient == Over(ScalarType(Global_nPoints[p]), ScalarType(Global_nLineLets))
     IN IF IsFinite(quotient)
        THEN /\ MeanPoints' = [MeanPoints EXCEPT ![p] =
                                 (quotient[1] \div quotient[2]) % (USHRT_MAX + 1)]
             /\ UNCHANGED ub
        ELSE /\ ub' = [ub EXCEPT ![p] = TRUE]
             /\ \E any \in {0, USHRT_MAX} :
                  MeanPoints' = [MeanPoints EXCEPT ![p] = any]
  /\ LineletUpper' = [LineletUpper EXCEPT ![p] = Resize(@, max_nElem[p], -1)]
  /\ LineletInvDiag' = [LineletInvDiag EXCEPT ![p] =
                          Resize(@, max_nElem[p] * nVar[p] * nVar[p], ScalarType(0))]
  /\ LineletVector' = [LineletVector EXCEPT ![p] =
                         Resize(@, max_nElem[p] * nVar[p], ScalarType(0))]
  /\ pc' = [pc EXCEPT ![p] = "idle"]
  /\ UNCHANGED quietVars
  /\ UNCHANGED <<x, objVars, callVars, editVars, precVars>>
  /\ UNCHANGED <<nLinelet, LineletBool, LineletPoint, max_nElem, Global_nPoints,
                 reduced, growth, thomas>>

\* Gauss_Elimination(matrix, vec) without MKL, on st = [matrix, vec]: one
\* elimination step of row iVar by row jVar.
Gauss_Elimination_Eliminate(st, nvar, iVar, jVar) ==
  LET weight == Over(st.matrix[iVar * nvar + jVar], st.matrix[jVar * nvar + jVar])
  IN [matrix |->
        [e \in DOMAIN st.matrix |->
           IF e \div nvar = iVar /\ e % nvar >= jVar
           THEN Minus(st.matrix[e], Times(weight, st.matrix[jVar * nvar + (e % nvar)]))
           ELSE st.matrix[e]],
      vec |->
        [e \in DOMAIN st.vec |->
           IF e = iVar THEN Minus(st.vec[e], Times(weight, st.vec[jVar]))
           ELSE st.vec[e]]]

RECURSIVE Gauss_Elimination_Upper(_, _, _, _)
\* for (iVar = 1; iVar < nvar; iVar++) for (jVar = 0; jVar < iVar; jVar++)
Gauss_Elimination_Upper(st, nvar, iVar, jVar) ==
  IF iVar >= nvar THEN st
  ELSE IF jVar >= iVar THEN Gauss_Elimination_Upper(st, nvar, iVar + 1, 0)
  ELSE Gauss_Elimination_Upper(Gauss_Elimination_Eliminate(st, nvar, iVar, jVar),
                               nvar, iVar, jVar + 1)

RECURSIVE Gauss_Elimination_RowMinus(_, _, _, _, _)
\* for (jVar = iVar+1; jVar < nvar; jVar++)
\*   vec[iVar] -= matrix[iVar*nvar+jVar]*vec[jVar]
Gauss_Elimination_RowMinus(mat, v, nvar, iVar, jVar) ==
  IF jVar >= nvar THEN v
  ELSE Gauss_Elimination_RowMinus(
         mat,
         [v EXCEPT ![iVar] = Minus(@, Times(mat[iVar * nvar + jVar], v[jVar]))],
         nvar, iVar, jVar + 1)

RECURSIVE Gauss_Elimination_Backwards(_, _, _, _)
\* for (iVar = nvar-1; iVar >= 0; iVar--): the row, then
\*   vec[iVar] /= matrix[iVar*nvar+iVar]
Gauss_Elimination_Backwards(mat, v, nvar, iVar) ==
  IF iVar < 0 THEN v
  ELSE Gauss_Elimination_Backwards(
         mat,
         [Gauss_Elimination_RowMinus(mat, v, nvar, iVar, iVar + 1)
            EXCEPT ![iVar] = Over(@, mat[iVar * nvar + iVar])],
         nvar, iVar - 1)

\* The matrix and the vector Gauss_Elimination leaves.
Gauss_Elimination(mat, v, nvar) ==
  LET up == Gauss_Elimination_Upper([matrix |-> mat, vec |-> v], nvar, 1, 0)
  IN [matrix |-> up.matrix,
      vec |-> Gauss_Elimination_Backwards(up.matrix, up.vec, nvar, nvar - 1)]

\* The nonzero index of block (block_i, block_j) of the matrix, or -1: the
\* block GetBlock(block_i, block_j) points to, or its nullptr.
MatrixIndex(p, block_i_, block_j_) ==
  LET S == {index \in row_ptr[p].a[block_i_]..(row_ptr[p].a[block_i_ + 1] - 1) :
              col_ind[p].a[index] = block_j_}
  IN IF S = {} THEN -1 ELSE CHOOSE index \in S : TRUE

\* The vector v with the nvar scalars blk written at v[vb..].
SetVector(v, vb, blk, nvar) ==
  [k \in DOMAIN v |-> IF k >= vb /\ k < vb + nvar THEN blk[k - vb] ELSE v[k]]

\* The nvar scalars at v[vb..].
GetVector(v, vb, nvar) == [k \in 0..(nvar - 1) |-> v[vb + k]]

\* VectorSubtraction(a, b, c): c = a - b
VectorSubtraction(a, b) == [k \in DOMAIN a |-> Minus(a[k], b[k])]

RECURSIVE ComputeLineletPreconditioner_Rhs(_, _, _, _)
\* LineletVector[iElem*nVar+iVar] = vec[iPoint*nVar+iVar] for the elements
\* below nElem
ComputeLineletPreconditioner_Rhs(p, v, chain, nElem) ==
  IF nElem = 0 THEN v
  ELSE SetVector(ComputeLineletPreconditioner_Rhs(p, v, chain, nElem - 1),
                 (nElem - 1) * nVar[p],
                 GetVector(vec[p].a, chain[nElem - 1] * nVar[p], nVar[p]),
                 nVar[p])

\* One pass of the forward loop, at element iElem, on ts = [LineletVector,
\* LineletInvDiag, LineletUpper, block, block_weight, aux_vector, prod].
ComputeLineletPreconditioner_Eliminate(p, ts, chain, iElem) ==
  LET nv == nVar[p]
      im1Point == chain[iElem - 1]
      iPoint == chain[iElem]
      d == GetBlock(matrix[p].a, mat_begin(p, MatrixIndex(p, iPoint, iPoint)), nv)
      l == GetBlock(matrix[p].a, mat_begin(p, MatrixIndex(p, iPoint, im1Point)), nv)
      u == MatrixIndex(p, im1Point, iPoint)
  IN TheOnly(
       {[ts EXCEPT
           !.LineletVector =
              SetVector(@, iElem * nv,
                        VectorSubtraction(GetVector(@, iElem * nv, nv), aux), nv),
           !.LineletInvDiag =
              SetBlock(SetBlock(@, (iElem - 1) * nv * nv, inv.inverse),
                       iElem * nv * nv,
                       MatrixSubtraction(
                         d, MatrixMatrixProduct(
                              weight, GetBlock(matrix[p].a, mat_begin(p, u), nv), nv))),
           !.LineletUpper[iElem - 1] = u,
           !.block = inv.block,
           !.block_weight = weight,
           !.aux_vector = aux] :
          <<inv, weight, aux>> \in
            {<<inverted, product,
               DenseMatrixVectorProduct(product, 0, ts.LineletVector,
                                        (iElem - 1) * nv, nv)>> :
               <<inverted, product>> \in
                 {<<run, MatrixMatrixProduct(l, run.inverse, nv)>> :
                    run \in {MatrixInverse_Run(
                               GetBlock(ts.LineletInvDiag, (iElem - 1) * nv * nv, nv),
                               nv)}}}})

RECURSIVE ComputeLineletPreconditioner_Forward(_, _, _, _)
\* for (iElem = 1; iElem < nElem; iElem++), from element iElem on
ComputeLineletPreconditioner_Forward(p, states, chain, iElem) ==
  IF iElem >= ALen(chain) THEN states
  ELSE TheOnly(
         {ComputeLineletPreconditioner_Forward(
            p, ComputeLineletPreconditioner_Eliminate(p, ts, chain, iElem),
            chain, iElem + 1) :
            ts \in {states}})

\* One pass of the backward loop, at element iElem.
ComputeLineletPreconditioner_Substitute(p, ts, iElem) ==
  LET nv == nVar[p]
  IN TheOnly(
       {[ts EXCEPT
           !.aux_vector = aux,
           !.LineletVector =
              SetVector(@, (iElem - 1) * nv,
                        DenseMatrixVectorProduct(ts.LineletInvDiag,
                                                 (iElem - 1) * nv * nv, aux, 0, nv),
                        nv)] :
          aux \in
            {VectorSubtraction(
               GetVector(ts.LineletVector, (iElem - 1) * nv, nv),
               DenseMatrixVectorProduct(
                 matrix[p].a, mat_begin(p, ts.LineletUpper[iElem - 1]),
                 ts.LineletVector, iElem * nv, nv))}})

RECURSIVE ComputeLineletPreconditioner_Backward(_, _, _)
\* for (iElem = nElem-1; iElem > 0; --iElem)
ComputeLineletPreconditioner_Backward(p, states, iElem) ==
  IF iElem <= 0 THEN states
  ELSE TheOnly(
         {ComputeLineletPreconditioner_Backward(
            p, ComputeLineletPreconditioner_Substitute(p, ts, iElem), iElem - 1) :
            ts \in {states}})

\* The Thomas pass of one chain: the buffers after the backward substitution.
ComputeLineletPreconditioner_Solve(p, ts, chain) ==
  LET nv == nVar[p]
      nElem == ALen(chain)
      first == mat_begin(p, MatrixIndex(p, chain[0], chain[0]))
  IN TheOnly(
       {ComputeLineletPreconditioner_Backward(
          p,
          [fwd EXCEPT
             !.LineletInvDiag = SetBlock(@, (nElem - 1) * nv * nv, last.matrix),
             !.LineletVector = SetVector(@, (nElem - 1) * nv, last.vec, nv)],
          nElem - 1) :
          <<fwd, last>> \in
            {<<eliminated,
               Gauss_Elimination(
                 GetBlock(eliminated.LineletInvDiag, (nElem - 1) * nv * nv, nv),
                 GetVector(eliminated.LineletVector, (nElem - 1) * nv, nv), nv)>> :
               eliminated \in
                 {ComputeLineletPreconditioner_Forward(
                    p,
                    [ts EXCEPT
                       !.LineletVector =
                          ComputeLineletPreconditioner_Rhs(p, @, chain, nElem),
                       !.LineletInvDiag =
                          SetBlock(@, 0, GetBlock(matrix[p].a, first, nv))],
                    chain, 1)}}})

RECURSIVE ComputeLineletPreconditioner_Copy(_, _, _, _, _)
\* prod[iPoint*nVar+iVar] = LineletVector[iElem*nVar+iVar] for the elements
\* below nElem
ComputeLineletPreconditioner_Copy(p, prod, v, chain, nElem) ==
  IF nElem = 0 THEN prod
  ELSE SetVector(ComputeLineletPreconditioner_Copy(p, prod, v, chain, nElem - 1),
                 chain[nElem - 1] * nVar[p],
                 GetVector(v, (nElem - 1) * nVar[p], nVar[p]),
                 nVar[p])

RECURSIVE ComputeLineletPreconditioner_Linelets(_, _, _)
\* for (iLinelet = 0; iLinelet < nLinelet; iLinelet++), on ts with prod
ComputeLineletPreconditioner_Linelets(p, states, iLinelet) ==
  IF iLinelet >= nLinelet[p] THEN states
  ELSE LET chain == LineletPoint[p][iLinelet]
       IN TheOnly(
            {ComputeLineletPreconditioner_Linelets(
               p,
               [solved EXCEPT
                  !.prod = ComputeLineletPreconditioner_Copy(
                             p, @, solved.LineletVector, chain, ALen(chain))],
               iLinelet + 1) :
               solved \in
                 {ComputeLineletPreconditioner_Solve(p, ts, chain) : ts \in {states}}})

\* The accesses of the loop over the points without a chain stay inside
\* LineletBool, invM and the two vectors.
LineletJacobiInBounds(p) ==
  /\ nPointDomain[p] <= ALen(LineletBool[p])
  /\ nPointDomain[p] * nVar[p] <= ALen(vec[p].a)
  /\ nPointDomain[p] * nVar[p] <= ALen(x[p])
  /\ (\E iPoint \in 0..(nPointDomain[p] - 1) : ~LineletBool[p][iPoint])
       => JacobiInBounds(p)

\* The accesses of the Thomas pass stay inside the chains, the row pointer,
\* the buffers and the vectors, and every block it multiplies is stored:
\* every chain has a point, every point of a chain is a row of the matrix,
\* and consecutive points of a chain hold each other's blocks.
LineletThomasInBounds(p) ==
  /\ nLinelet[p] <= ALen(LineletPoint[p])
  /\ nLinelet[p] > 0 => (~block_weight[p].null /\ ~aux_vector[p].null
                           /\ ~block[p].null)
  /\ \A iLinelet \in 0..(nLinelet[p] - 1) :
       LET chain == LineletPoint[p][iLinelet]
           nElem == ALen(chain)
       IN /\ nElem >= 1
          /\ nElem * nVar[p] <= ALen(LineletVector[p])
          /\ nElem * nVar[p] * nVar[p] <= ALen(LineletInvDiag[p])
          /\ nElem - 1 <= ALen(LineletUpper[p])
          /\ \A iElem \in 0..(nElem - 1) :
               /\ chain[iElem] < ALen(row_ptr[p].a) - 1
               /\ (chain[iElem] + 1) * nVar[p] <= ALen(vec[p].a)
               /\ (chain[iElem] + 1) * nVar[p] <= ALen(x[p])
               /\ MatrixIndex(p, chain[iElem], chain[iElem]) # -1
          /\ \A iElem \in 1..(nElem - 1) :
               /\ MatrixIndex(p, chain[iElem], chain[iElem - 1]) # -1
               /\ MatrixIndex(p, chain[iElem - 1], chain[iElem]) # -1

\* ComputeLineletPreconditioner up to the return of its first InitiateComms
\* call: the cached inverse times the block of vec at every owned point
\* that is in no chain.
ComputeLineletPreconditioner(p) ==
  /\ operation = ComputeLineletPreconditionerName
  /\ round[p] + 1 < MaxProducts
  /\ ~thomas[p]
  /\ IF ~LineletJacobiInBounds(p)
     THEN /\ ~Aborted
          /\ pc[p] \in {"idle", "done"}
          /\ Undefined(p)
          /\ UNCHANGED <<quietVars, x, matVars>>
     ELSE LET prod == [k \in DOMAIN x[p] |->
                         IF /\ k \div nVar[p] < nPointDomain[p]
                            /\ ~LineletBool[p][k \div nVar[p]]
                         THEN ComputeJacobiPreconditioner_Loop(p, vec[p].a, x[p])[k]
                         ELSE x[p][k]]
          IN /\ x' = [x EXCEPT ![p] = prod]
             /\ InitiateComms_Exchange(p, prod, SOLUTION_MATRIX)
             /\ thomas' = [thomas EXCEPT ![p] = TRUE]
             /\ UNCHANGED <<objVars, callVars, editVars, precVars, nLinelet,
                            LineletBool, LineletPoint, LineletUpper,
                            LineletInvDiag, LineletVector, max_nElem,
                            Global_nPoints, MeanPoints, reduced, growth>>

\* The CompleteComms call that follows the first InitiateComms.
ComputeLineletPreconditioner_CompleteComms(p) ==
  /\ operation = ComputeLineletPreconditionerName
  /\ thomas[p]
  /\ CompleteComms_Enter(p, SOLUTION_MATRIX)

\* ComputeLineletPreconditioner from the return of its first CompleteComms
\* call to the return of its second InitiateComms call: the Thomas pass of
\* every chain.
ComputeLineletPreconditioner_Thomas(p) ==
  /\ operation = ComputeLineletPreconditionerName
  /\ thomas[p]
  /\ pc[p] = "done"
  /\ thomas' = [thomas EXCEPT ![p] = FALSE]
  /\ IF ~LineletThomasInBounds(p)
     THEN /\ ~Aborted
          /\ Undefined(p)
          /\ UNCHANGED <<quietVars, x, objVars, callVars, editVars, precVars,
                         nLinelet, LineletBool, LineletPoint, LineletUpper,
                         LineletInvDiag, LineletVector, max_nElem,
                         Global_nPoints, MeanPoints, reduced, growth>>
     ELSE \E ts \in {ComputeLineletPreconditioner_Linelets(
                        p,
                        [LineletVector |-> LineletVector[p],
                         LineletInvDiag |-> LineletInvDiag[p],
                         LineletUpper |-> LineletUpper[p],
                         block |-> block[p].a,
                         block_weight |-> block_weight[p].a,
                         aux_vector |-> aux_vector[p].a,
                         prod |-> x[p]],
                        0)} :
             /\ x' = [x EXCEPT ![p] = ts.prod]
             /\ InitiateComms_Exchange(p, ts.prod, SOLUTION_MATRIX)
             /\ SetObject(p, [Object(p) EXCEPT
                                !.block = Pointer(ts.block),
                                !.block_weight = Pointer(ts.block_weight),
                                !.aux_vector = Pointer(ts.aux_vector)])
             /\ LineletVector' = [LineletVector EXCEPT ![p] = ts.LineletVector]
             /\ LineletInvDiag' = [LineletInvDiag EXCEPT ![p] = ts.LineletInvDiag]
             /\ LineletUpper' = [LineletUpper EXCEPT ![p] = ts.LineletUpper]
             /\ UNCHANGED <<callVars, editVars, precVars, nLinelet, LineletBool,
                            LineletPoint, max_nElem, Global_nPoints, MeanPoints,
                            reduced, growth>>

\* The CompleteComms call that ends ComputeLineletPreconditioner.
ComputeLineletPreconditioner_CompleteComms_Thomas(p) ==
  /\ operation = ComputeLineletPreconditionerName
  /\ ~thomas[p]
  /\ CompleteComms_Enter(p, SOLUTION_MATRIX)

\* ------------------------------------------------------------------------
\* The LU-SGS preconditioner
\* ------------------------------------------------------------------------

ComputeLU_SGSPreconditionerName == "ComputeLU_SGSPreconditioner"

RECURSIVE RowProduct(_, _, _, _, _, _)
\* Component iVar of the sum, over the nonzero indices from index on of row
\* row_i whose column is in the part ("L" below, "D" on, "U" above the
\* diagonal), of the block times the block of v at that column.
RowProduct(p, v, row_i, part, iVar, index) ==
  IF index >= row_ptr[p].a[row_i + 1] THEN ScalarType(0)
  ELSE LET col == col_ind[p].a[index]
           rest == RowProduct(p, v, row_i, part, iVar, index + 1)
       IN IF \/ part = "L" /\ col < row_i
             \/ part = "D" /\ col = row_i
             \/ part = "U" /\ col > row_i
          THEN Plus(DotRow(matrix[p].a, mat_begin(p, index) + iVar * nVar[p],
                           v, col * nVar[p], nVar[p], nVar[p]),
                    rest)
          ELSE rest

\* prod_row_vector after LowerProduct(vec, row_i): L.vec at row row_i
LowerProduct(p, v, row_i) ==
  [iVar \in 0..(nVar[p] - 1) |->
     RowProduct(p, v, row_i, "L", iVar, row_ptr[p].a[row_i])]

\* prod_row_vector after UpperProduct(vec, row_i): U.vec at row row_i
UpperProduct(p, v, row_i) ==
  [iVar \in 0..(nVar[p] - 1) |->
     RowProduct(p, v, row_i, "U", iVar, row_ptr[p].a[row_i])]

\* prod_row_vector after DiagonalProduct(vec, row_i): D.vec at row row_i
DiagonalProduct(p, v, row_i) ==
  [iVar \in 0..(nVar[p] - 1) |->
     RowProduct(p, v, row_i, "D", iVar, row_ptr[p].a[row_i])]

\* Gauss_Elimination(block_i, rhs): the diagonal block is copied to block
\* and Gauss_Elimination(block, rhs) solves in place.
Gauss_Elimination_Point(p, block_i_, rhs) ==
  Gauss_Elimination(GetBlock(matrix[p].a,
                             mat_begin(p, MatrixIndex(p, block_i_, block_i_)),
                             nVar[p]),
                    rhs, nVar[p])

\* The body of the first loop of ComputeLU_SGSPreconditioner at iPoint.
ComputeLU_SGSPreconditioner_LowerPoint(p, st, iPoint) ==
  LET row == LowerProduct(p, st.prod, iPoint)
      rhs == [iVar \in 0..(nVar[p] - 1) |->
                Minus(vec[p].a[iPoint * nVar[p] + iVar], row[iVar])]
      ge == Gauss_Elimination_Point(p, iPoint, rhs)
  IN [st EXCEPT !.prod = SetVector(@, iPoint * nVar[p], ge.vec, nVar[p]),
                !.prod_row_vector = row,
                !.block = ge.matrix]

RECURSIVE ComputeLU_SGSPreconditioner_Lower(_, _, _)
\* for (iPoint = 0; iPoint < nPointDomain; iPoint++)
ComputeLU_SGSPreconditioner_Lower(p, st, iPoint) ==
  IF iPoint >= nPointDomain[p] THEN st
  ELSE ComputeLU_SGSPreconditioner_Lower(
         p,
         TheOnly({ComputeLU_SGSPreconditioner_LowerPoint(p, s, iPoint) : s \in {st}}),
         iPoint + 1)

\* The body of the second loop of ComputeLU_SGSPreconditioner at iPoint.
ComputeLU_SGSPreconditioner_UpperPoint(p, st, iPoint) ==
  LET aux == DiagonalProduct(p, st.prod, iPoint)
      row == UpperProduct(p, st.prod, iPoint)
      rhs == [iVar \in 0..(nVar[p] - 1) |-> Minus(aux[iVar], row[iVar])]
      ge == Gauss_Elimination_Point(p, iPoint, rhs)
  IN [st EXCEPT !.prod = SetVector(@, iPoint * nVar[p], ge.vec, nVar[p]),
                !.prod_row_vector = row,
                !.aux_vector = aux,
                !.block = ge.matrix]

RECURSIVE ComputeLU_SGSPreconditioner_Upper(_, _, _)
\* for (iPoint = nPointDomain-1; (int)iPoint >= 0; iPoint--)
ComputeLU_SGSPreconditioner_Upper(p, st, iPoint) ==
  IF iPoint < 0 THEN st
  ELSE ComputeLU_SGSPreconditioner_Upper(
         p,
         TheOnly({ComputeLU_SGSPreconditioner_UpperPoint(p, s, iPoint) : s \in {st}}),
         iPoint - 1)

\* The accesses of the LU-SGS apply stay inside the arrays: every owned row
\* has its diagonal block, and the blocks of the row have their entries of
\* prod.
LU_SGSInBounds(p) ==
  /\ nPointDomain[p] * nVar[p] <= ALen(vec[p].a)
  /\ nPointDomain[p] < ALen(row_ptr[p].a)
  /\ \A iPoint \in 0..(nPointDomain[p] - 1) :
       /\ MatrixIndex(p, iPoint, iPoint) # -1
       /\ \A index \in RowIndices(p, iPoint) :
            /\ (col_ind[p].a[index] + 1) * nVar[p] <= ALen(x[p])
            /\ mat_begin(p, index) + nVar[p] * nVar[p] <= ALen(matrix[p].a)

\* The buffers the loops of ComputeLU_SGSPreconditioner work on.
LU_SGSState(p) ==
  [prod |-> x[p],
   prod_row_vector |-> prod_row_vector[p].a,
   aux_vector |-> aux_vector[p].a,
   block |-> block[p].a]

\* Rank p's prod and buffers become those of st, and prod is sent.
LU_SGSExchange(p, st) ==
  /\ x' = [x EXCEPT ![p] = st.prod]
  /\ InitiateComms_Exchange(p, st.prod, SOLUTION_MATRIX)
  /\ SetObject(p, [Object(p) EXCEPT
                     !.prod_row_vector = Pointer(st.prod_row_vector),
                     !.aux_vector = Pointer(st.aux_vector),
                     !.block = Pointer(st.block)])
  /\ UNCHANGED <<callVars, editVars, precVars, nLinelet, LineletBool,
                 LineletPoint, LineletUpper, LineletInvDiag, LineletVector,
                 max_nElem, Global_nPoints, MeanPoints, reduced, growth>>

\* ComputeLU_SGSPreconditioner up to the return of its first InitiateComms
\* call: (D+L).x* = b.
ComputeLU_SGSPreconditioner(p) ==
  /\ operation = ComputeLU_SGSPreconditionerName
  /\ round[p] + 1 < MaxProducts
  /\ ~thomas[p]
  /\ IF ~LU_SGSInBounds(p)
     THEN /\ ~Aborted
          /\ pc[p] \in {"idle", "done"}
          /\ Undefined(p)
          /\ UNCHANGED <<quietVars, x, matVars>>
     ELSE \E st \in {ComputeLU_SGSPreconditioner_Lower(p, LU_SGSState(p), 0)} :
            /\ LU_SGSExchange(p, st)
            /\ thomas' = [thomas EXCEPT ![p] = TRUE]

\* The CompleteComms call that follows the first InitiateComms.
ComputeLU_SGSPreconditioner_CompleteComms(p) ==
  /\ operation = ComputeLU_SGSPreconditionerName
  /\ thomas[p]
  /\ CompleteComms_Enter(p, SOLUTION_MATRIX)

\* ComputeLU_SGSPreconditioner from the return of its first CompleteComms
\* call to the return of its second InitiateComms call:
\* (D+U).x_(1) = D.x*.
ComputeLU_SGSPreconditioner_Second(p) ==
  /\ operation = ComputeLU_SGSPreconditionerName
  /\ thomas[p]
  /\ pc[p] = "done"
  /\ thomas' = [thomas EXCEPT ![p] = FALSE]
  /\ \E st \in {ComputeLU_SGSPreconditioner_Upper(p, LU_SGSState(p),
                                                  nPointDomain[p] - 1)} :
       LU_SGSExchange(p, st)

\* The CompleteComms call that ends ComputeLU_SGSPreconditioner.
ComputeLU_SGSPreconditioner_CompleteComms_Second(p) ==
  /\ operation = ComputeLU_SGSPreconditionerName
  /\ ~thomas[p]
  /\ CompleteComms_Enter(p, SOLUTION_MATRIX)

\* ------------------------------------------------------------------------
\* Initial states
\* ------------------------------------------------------------------------

\* The halo exchange before its first use on mesh m, the run's commType q,
\* geometry->countPerPoint cpp0 and the vectors xs.
InitExchange(m, q, cpp0, xs) ==
  /\ mesh = m
  /\ quantity = q
  /\ pc = [p \in 0..(m.size - 1) |-> "idle"]
  /\ round = [p \in 0..(m.size - 1) |-> 0]
  /\ callType = [p \in 0..(m.size - 1) |-> q]
  /\ iMessage = [p \in 0..(m.size - 1) |-> 0]
  /\ x = xs
  /\ x0 = xs
  /\ countPerPoint = [p \in 0..(m.size - 1) |-> cpp0]
  /\ bufD_P2PSend = [p \in 0..(m.size - 1) |-> AllocatedBuffer(m.send[p], cpp0)]
  /\ bufD_P2PRecv = [p \in 0..(m.size - 1) |-> AllocatedBuffer(m.recv[p], cpp0)]
  /\ req_P2PSend = [p \in 0..(m.size - 1) |->
                      [i \in DOMAIN m.send[p] |-> NullSend]]
  /\ req_P2PRecv = [p \in 0..(m.size - 1) |->
                      [i \in DOMAIN m.recv[p] |-> NullRecv]]
  /\ sendq = [p \in 0..(m.size - 1) |-> <<>>]
  /\ net = [s \in 0..(m.size - 1) |-> [d \in 0..(m.size - 1) |-> <<>>]]
  /\ errMsg = [p \in 0..(m.size - 1) |-> ""]
  /\ ub = [p \in 0..(m.size - 1) |-> FALSE]
  /\ processed = [p \in 0..(m.size - 1) |-> <<>>]
  /\ sentLog = [p \in 0..(m.size - 1) |-> <<>>]

\* The values the solver assembled into a matrix of n scalars on rank p:
\* 1..4, different for the four entries of a 2x2 block.
AssembledValues(p, n) == [k \in 0..(n - 1) |-> ((3 * k + p) % 4) + 1]

\* Rank p's matrix after Initialize with square blocks of nv and assembly.
AssembledObject(m, cfg, p, nv) ==
  LET obj == InitializeObject(CSysMatrix, m, cfg, p, m.nPoint[p],
                              m.nPointDomain[p], nv, nv, TRUE)
  IN [obj EXCEPT !.matrix = Pointer(AssembledValues(p, ALen(obj.matrix.a)))]

\* The point of the mesh that local point pt of rank p is: itself when owned,
\* else the point of the neighbour it mirrors.
OwnerOf(m, p, pt) ==
  IF pt < m.nPointDomain[p] THEN <<p, pt>>
  ELSE LET j == CHOOSE jj \in DOMAIN m.recv[p] :
                  \E i \in DOMAIN m.recv[p][jj].pts : m.recv[p][jj].pts[i] = pt
           i == CHOOSE ii \in DOMAIN m.recv[p][j].pts : m.recv[p][j].pts[ii] = pt
           q == m.recv[p][j].rank
           js == CHOOSE s \in DOMAIN m.send[q] : m.send[q][s].rank = p
       IN <<q, m.send[q][js].pts[i]>>

\* A vector of nBlk blocks of nv on rank p whose halo entries equal the
\* owner's entries (values 1..3; blocks past the rank's points hold 0).
ConformingVector(m, p, nv, nBlk, salt) ==
  [k \in 0..(nv * nBlk - 1) |->
     IF k \div nv >= m.nPoint[p] THEN 0
     ELSE LET o == OwnerOf(m, p, k \div nv)
          IN 1 + ((salt + 2 * o[1] + o[2] + (k % nv)) % 3)]

\* No product is called in a run of the halo exchange or of Initialize.
NoVec(m) == [p \in 0..(m.size - 1) |-> [nVar |-> 0, nBlk |-> 0, a |-> << >>]]

\* ------------------------------------------------------------------------
\* The halo exchange on its own: every rank passes a vector to
\* InitiateComms and then to CompleteComms, MaxRound times.
\* ------------------------------------------------------------------------

\* (nVar, countPerPoint before the first exchange): countPerPoint is 0 (no
\* buffer yet) or the 3 values per point another solver's exchange left the
\* buffers allocated for.
BlockAndCount == {<<1, 0>>, <<2, 3>>}

\* Rank p holds the vector of seed p: the vectors of the ranks differ.
InitComms ==
  \E m \in Meshes, q \in QuantityKinds, bc \in BlockAndCount :
    /\ InitExchange(m, q, bc[2],
                    [p \in 0..(m.size - 1) |-> SeededVector(p, m.nPoint[p] * bc[1])])
    /\ ObjectsAre([p \in 0..(m.size - 1) |-> AssembledObject(m, ConfigJacobi, p, bc[1])])
    /\ config = ConfigJacobi
    /\ NDEBUG = FALSE
    /\ operation = "none"
    /\ vec = NoVec(m)
    /\ prodShape = [p \in 0..(m.size - 1) |-> [nVar |-> bc[1], nBlk |-> m.nPoint[p]]]
    /\ initCalls = [p \in 0..(m.size - 1) |-> 1]
    /\ NoEdits(m)
    /\ NoBuilds(m)
    /\ NoLinelets(m)

NextComms ==
  \/ \E p \in Ranks : Call_InitiateComms(p)
  \/ \E p \in Ranks : Call_CompleteComms(p)
  \/ \E p \in Ranks : CompleteComms_Waitany(p)
  \/ \E p \in Ranks : CompleteComms_WaitanyUnposted(p)
  \/ \E p \in Ranks : CompleteComms_Waitall(p)
  \/ \E p \in Ranks : MPI_Transmit(p)
  \/ \E p \in Ranks : MPI_Deliver(p)

SpecComms == InitComms /\ [][NextComms]_vars

\* ------------------------------------------------------------------------
\* Initialize on its own: fresh objects, every configuration.
\* ------------------------------------------------------------------------

BlockSizes == 1..MaxBlock

InitInit ==
  \E m \in {MeshSolo, MeshPair}, cfg \in Configs :
    /\ InitExchange(m, SOLUTION_MATRIX, 0,
                    [p \in 0..(m.size - 1) |-> SeededVector(p, m.nPoint[p])])
    /\ ObjectsAre([p \in 0..(m.size - 1) |-> CSysMatrix])
    /\ config = cfg
    /\ NDEBUG = FALSE
    /\ operation = "none"
    /\ vec = NoVec(m)
    /\ prodShape = [p \in 0..(m.size - 1) |-> [nVar |-> 1, nBlk |-> m.nPoint[p]]]
    /\ initCalls = [p \in 0..(m.size - 1) |-> 0]
    /\ NoEdits(m)
    /\ NoBuilds(m)
    /\ NoLinelets(m)

NextInit ==
  \E p \in Ranks, nvar \in BlockSizes, neqn \in BlockSizes, EdgeConnect \in BOOLEAN :
    Initialize(p, mesh.nPoint[p], mesh.nPointDomain[p], nvar, neqn, EdgeConnect)

SpecInit == InitInit /\ [][NextInit]_vars

\* ------------------------------------------------------------------------
\* The products: every rank calls the run's product MaxProducts times on
\* initialized and assembled matrices.
\* ------------------------------------------------------------------------

\* What the vectors' block size and block count differ by from nVar and
\* nPoint: (vec.nVar, vec.nBlk, prod.nVar, prod.nBlk).
Shapes == {<<0, 0, 0, 0>>, <<0, 1, 0, 0>>, <<0, -1, 0, 0>>, <<0, 0, 1, 0>>}

InitMV ==
  \E m \in Meshes, o \in {MatrixVectorProductName, MatrixVectorProductTransposedName},
     bc \in BlockAndCount, nd \in BOOLEAN, sh \in Shapes :
    /\ InitExchange(m,
                    IF o = MatrixVectorProductName
                    THEN SOLUTION_MATRIX ELSE SOLUTION_MATRIXTRANS,
                    bc[2],
                    [p \in 0..(m.size - 1) |->
                       SeededVector(p, (bc[1] + sh[3]) * (m.nPoint[p] + sh[4]))])
    /\ ObjectsAre([p \in 0..(m.size - 1) |-> AssembledObject(m, ConfigJacobi, p, bc[1])])
    /\ config = ConfigJacobi
    /\ NDEBUG = nd
    /\ operation = o
    /\ vec = [p \in 0..(m.size - 1) |->
                [nVar |-> bc[1] + sh[1], nBlk |-> m.nPoint[p] + sh[2],
                 a |-> ConformingVector(m, p, bc[1] + sh[1], m.nPoint[p] + sh[2], 0)]]
    /\ prodShape = [p \in 0..(m.size - 1) |->
                      [nVar |-> bc[1] + sh[3], nBlk |-> m.nPoint[p] + sh[4]]]
    /\ initCalls = [p \in 0..(m.size - 1) |-> 1]
    /\ NoEdits(m)
    /\ NoBuilds(m)
    /\ NoLinelets(m)

NextMV ==
  \/ \E p \in Ranks : MatrixVectorProduct(p)
  \/ \E p \in Ranks : MatrixVectorProductTransposed(p)
  \/ \E p \in Ranks : MatrixVectorProduct_CompleteComms(p)
  \/ \E p \in Ranks : MatrixVectorProductTransposed_CompleteComms(p)
  \/ \E p \in Ranks : CompleteComms_Waitany(p)
  \/ \E p \in Ranks : CompleteComms_WaitanyUnposted(p)
  \/ \E p \in Ranks : CompleteComms_Waitall(p)
  \/ \E p \in Ranks : MPI_Transmit(p)
  \/ \E p \in Ranks : MPI_Deliver(p)

SpecMV == InitMV /\ [][NextMV]_vars

\* ------------------------------------------------------------------------
\* The structural edits on their own: every rank edits its assembled matrix
\* and right-hand side MaxEdits times.
\* ------------------------------------------------------------------------

\* The solutions EnforceSolutionAtNode is asked to enforce: 2, 3, ... and 0.
EnforcedValues(nv) ==
  {[jVar \in 0..(nv - 1) |-> 2 + jVar], [jVar \in 0..(nv - 1) |-> 0]}

\* Rank p's matrix after Initialize with blocks of nvar and neqn and assembly.
AssembledBlocks(m, cfg, p, nvar, neqn) ==
  LET obj == InitializeObject(CSysMatrix, m, cfg, p, m.nPoint[p],
                              m.nPointDomain[p], nvar, neqn, TRUE)
  IN [obj EXCEPT !.matrix = Pointer(AssembledValues(p, ALen(obj.matrix.a)))]

\* The state before the first edit or product on mesh m with blocks of nvar
\* and neqn and the product o.
InitAssembled(m, o, nvar, neqn) ==
  /\ InitExchange(m,
                  IF o = MatrixVectorProductTransposedName
                  THEN SOLUTION_MATRIXTRANS ELSE SOLUTION_MATRIX,
                  0,
                  [p \in 0..(m.size - 1) |-> SeededVector(p, nvar * m.nPoint[p])])
  /\ ObjectsAre([p \in 0..(m.size - 1) |->
                   AssembledBlocks(m, ConfigJacobi, p, nvar, neqn)])
  /\ config = ConfigJacobi
  /\ NDEBUG = FALSE
  /\ operation = o
  /\ vec = [p \in 0..(m.size - 1) |->
              [nVar |-> nvar, nBlk |-> m.nPoint[p],
               a |-> ConformingVector(m, p, nvar, m.nPoint[p], 0)]]
  /\ prodShape = [p \in 0..(m.size - 1) |-> [nVar |-> nvar, nBlk |-> m.nPoint[p]]]
  /\ initCalls = [p \in 0..(m.size - 1) |-> 1]
  /\ NoEdits(m)
  /\ NoBuilds(m)
  /\ NoLinelets(m)

InitEdit ==
  \E m \in {MeshSolo, MeshPair, MeshUneven}, nv \in BlockSizes :
    InitAssembled(m, "none", nv, nv)

NextEdit ==
  \/ \E p \in Ranks : \E i \in 0..(nPointDomain[p] * nVar[p] - 1) :
       DeleteValsRowi(p, i)
  \/ \E p \in Ranks : \E node_i \in 0..(nPointDomain[p] - 1) :
       \E x_i \in EnforcedValues(nVar[p]) :
         EnforceSolutionAtNode(p, node_i, x_i)

SpecEdit == InitEdit /\ [][NextEdit]_vars

\* ------------------------------------------------------------------------
\* The edits on matrices initialized with every pair of nVar and nEqn.
\* ------------------------------------------------------------------------

InitLayout ==
  \E m \in {MeshSolo, MeshPair}, nvar \in BlockSizes, neqn \in BlockSizes :
    InitAssembled(m, "none", nvar, neqn)

SpecLayout == InitLayout /\ [][NextEdit]_vars

\* ------------------------------------------------------------------------
\* The Jacobi preconditioner: every rank builds it (transposed or not) and
\* applies it to the run's vector.
\* ------------------------------------------------------------------------

\* One rank, one point: a block-diagonal matrix of one block.
MeshPoint ==
  [size |-> 1, nPoint |-> Arr(<<1>>), nPointDomain |-> Arr(<<1>>),
   send |-> Arr(<< Arr(<<>>) >>),
   recv |-> Arr(<< Arr(<<>>) >>)]

\* The matrices the solver assembles, by name.
Assemblies == {"assembled", "identity5", "swap", "dominant"}

\* Scalar k of the matrix obj of rank p under assembly f:
\*   assembled  AssembledValues;
\*   identity5  5 times the identity (diagonal blocks only);
\*   swap       diagonal blocks with ones on the antidiagonal (nonsingular,
\*              with a zero in the first pivot position when nVar > 1), the
\*              other blocks as assembled;
\*   dominant   3 on the diagonal of the diagonal blocks, 0 or 1 elsewhere;
\*   laplace    2 on the diagonal of the diagonal blocks, -1 on the diagonal
\*              of the other blocks, 0 elsewhere.
AssemblyValue(obj, p, f, k) ==
  LET nv == obj.nVar
      index == k \div (nv * nv)
      r == (k % (nv * nv)) \div nv
      c == k % nv
      diag == \E i \in 0..(obj.nPointDomain - 1) : obj.dia_ptr.a[i] = index
  IN IF f = "identity5" THEN (IF diag /\ r = c THEN 5 ELSE 0)
     ELSE IF f = "swap" /\ diag THEN (IF r + c = nv - 1 THEN 1 ELSE 0)
     ELSE IF f = "dominant"
     THEN (IF diag /\ r = c THEN 3 ELSE (index + r + 2 * c + p) % 2)
     ELSE IF f = "laplace" THEN (IF r # c THEN 0 ELSE IF diag THEN 2 ELSE -1)
     ELSE AssembledValues(p, k + 1)[k]

\* The buffer ptr with its values as scalars.
ScalarBuffer(ptr) == IF ptr.null THEN ptr ELSE Pointer(Scalars(ptr.a))

\* Rank p's matrix after Initialize with square blocks of nv and assembly f.
ScalarObject(m, cfg, p, nv, f) ==
  LET obj == InitializeObject(CSysMatrix, m, cfg, p, m.nPoint[p],
                              m.nPointDomain[p], nv, nv, TRUE)
  IN [obj EXCEPT
        !.matrix = Pointer([k \in DOMAIN obj.matrix.a |->
                              ScalarType(AssemblyValue(obj, p, f, k))]),
        !.ILU_matrix = ScalarBuffer(@),
        !.invM = ScalarBuffer(@),
        !.block = ScalarBuffer(@),
        !.block_weight = ScalarBuffer(@),
        !.block_inverse = ScalarBuffer(@),
        !.aux_vector = ScalarBuffer(@),
        !.sum_vector = ScalarBuffer(@),
        !.prod_row_vector = ScalarBuffer(@)]

\* The state before the first build on mesh m with configuration cfg, blocks
\* of nv, assembly f, the preconditioner o and the vectors vecs of the ranks.
InitPreconditionerOn(m, cfg, nv, f, o, vecs) ==
  /\ InitExchange(m, SOLUTION_MATRIX, 0,
                  [p \in 0..(m.size - 1) |->
                     Scalars(SeededVector(p, nv * m.nPoint[p]))])
  /\ ObjectsAre([p \in 0..(m.size - 1) |-> ScalarObject(m, cfg, p, nv, f)])
  /\ config = cfg
  /\ NDEBUG = FALSE
  /\ operation = o
  /\ vec = [p \in 0..(m.size - 1) |->
              [nVar |-> nv, nBlk |-> m.nPoint[p], a |-> Scalars(vecs[p])]]
  /\ prodShape = [p \in 0..(m.size - 1) |-> [nVar |-> nv, nBlk |-> m.nPoint[p]]]
  /\ initCalls = [p \in 0..(m.size - 1) |-> 1]
  /\ NoEdits(m)
  /\ NoBuilds(m)
  /\ NoLinelets(m)

\* The same with the vector of salt s.
InitPreconditioner(m, cfg, nv, f, o, s) ==
  InitPreconditionerOn(m, cfg, nv, f, o,
                       [p \in 0..(m.size - 1) |->
                          ConformingVector(m, p, nv, m.nPoint[p], s)])

\* The meshes and block sizes of the preconditioner runs.
MeshAndBlock ==
  ({MeshPoint} \X (1..MaxPointBlock)) \cup ({MeshSolo} \X BlockSizes)
    \cup {<<MeshPair, 1>>}

\* Every assembly and vector on one rank, one of each on two ranks.
InitJacobi ==
  \E mb \in MeshAndBlock, f \in Assemblies, s \in {0, 1} :
    /\ f # "dominant"
    /\ mb[1].size > 1 => (f = "assembled" /\ s = 0)
    /\ InitPreconditioner(mb[1], ConfigJacobi, mb[2], f,
                          ComputeJacobiPreconditionerName, s)

\* The steps of the halo exchange a preconditioner's apply waits for, on
\* meshes where every rank with a receive neighbour has a send neighbour.
NextExchange ==
  \/ \E p \in Ranks : CompleteComms_Waitany(p)
  \/ \E p \in Ranks : CompleteComms_Waitall(p)
  \/ \E p \in Ranks : MPI_Transmit(p)
  \/ \E p \in Ranks : MPI_Deliver(p)

NextJacobi ==
  \/ \E p \in Ranks, transpose \in BOOLEAN : BuildJacobiPreconditioner(p, transpose)
  \/ \E p \in Ranks : ComputeJacobiPreconditioner(p)
  \/ \E p \in Ranks : ComputeJacobiPreconditioner_CompleteComms(p)
  \/ NextExchange

SpecJacobi == InitJacobi /\ [][NextJacobi]_vars

\* ------------------------------------------------------------------------
\* The ILU preconditioner: every rank builds it (transposed or not) and
\* applies it to the run's vector, a product of the matrix, or of its
\* transpose, and a known vector.
\* ------------------------------------------------------------------------

\* One rank, three points, point 0 linked to points 1 and 2: eliminating
\* point 0 fills block (1, 2), which the pattern does not have.
MeshStar ==
  [size |-> 1, nPoint |-> Arr(<<3>>), nPointDomain |-> Arr(<<3>>),
   send |-> Arr(<< Arr(<<>>) >>),
   recv |-> Arr(<< Arr(<<>>) >>),
   edges |-> Arr(<< {<<0, 1>>, <<0, 2>>} >>)]

\* A flow solver with the ILU preconditioner of the given fill level.
ConfigILU(fill) ==
  [Kind_Linear_Solver_Prec |-> ILU,
   Kind_Deform_Linear_Solver_Prec |-> LU_SGS,
   Kind_DiscAdj_Linear_Prec |-> LU_SGS,
   Discrete_Adjoint |-> FALSE,
   Linear_Solver_ILU_n |-> fill]

RECURSIVE BlockRowDot(_, _, _, _, _)
\* Component r of the sum over the nonzero indices index..last-1 of the
\* block times the block of v at the block's column.
BlockRowDot(obj, v, r, index, last) ==
  IF index >= last THEN ScalarType(0)
  ELSE LET nv == obj.nVar
       IN Plus(DotRow(obj.matrix.a, index * nv * nv + r * nv, v,
                      obj.col_ind.a[index] * nv, nv, nv),
               BlockRowDot(obj, v, r, index + 1, last))

RECURSIVE TransposedDot(_, _, _, _, _)
\* Component r at point pt of transpose(A) * v: the sum over the blocks
\* index < n of column pt.
TransposedDot(obj, v, pt, r, n) ==
  IF n = 0 THEN ScalarType(0)
  ELSE LET nv == obj.nVar
           index == n - 1
           row == CHOOSE i \in 0..(obj.nPointDomain - 1) :
                    obj.row_ptr.a[i] <= index /\ index < obj.row_ptr.a[i + 1]
           rest == TransposedDot(obj, v, pt, r, n - 1)
       IN IF obj.col_ind.a[index] = pt
          THEN Plus(rest,
                    DotRow(Transposed(GetBlock(obj.matrix.a, index * nv * nv, nv), nv),
                           r * nv, v, row * nv, nv, nv))
          ELSE rest

\* The right-hand side the solver passes: A * v at the owned points (A
\* transposed when the transposed system is solved), zero at the others.
SystemProduct(obj, v, transposed) ==
  [k \in DOMAIN v |->
     LET pt == k \div obj.nVar
         r == k % obj.nVar
     IN IF pt >= obj.nPointDomain THEN ScalarType(0)
        ELSE IF transposed THEN TransposedDot(obj, v, pt, r, obj.nnz)
        ELSE BlockRowDot(obj, v, r, obj.row_ptr.a[pt], obj.row_ptr.a[pt + 1])]

\* The vectors the solver multiplies: of salt 0 and 1.
InputVectors(m, p, nv) ==
  {Scalars(ConformingVector(m, p, nv, m.nPoint[p], s)) : s \in {0, 1}}

\* The state before the first build of a run that solves the system of the
\* matrix (transposed when t) for the right-hand side A * xin[p].
InitSystem(m, cfg, nv, f, o, t, xin) ==
  /\ InitExchange(m, SOLUTION_MATRIX, 0,
                  [p \in 0..(m.size - 1) |->
                     Scalars(SeededVector(p, nv * m.nPoint[p]))])
  /\ ObjectsAre([p \in 0..(m.size - 1) |-> ScalarObject(m, cfg, p, nv, f)])
  /\ config = cfg
  /\ NDEBUG = FALSE
  /\ operation = o
  /\ vec = [p \in 0..(m.size - 1) |->
              [nVar |-> nv, nBlk |-> m.nPoint[p],
               a |-> SystemProduct(ScalarObject(m, cfg, p, nv, f), xin[p], t)]]
  /\ prodShape = [p \in 0..(m.size - 1) |-> [nVar |-> nv, nBlk |-> m.nPoint[p]]]
  /\ initCalls = [p \in 0..(m.size - 1) |-> 1]
  /\ NoEdits(m)
  /\ NoBuilds(m)
  /\ NoLinelets(m)

\* The meshes and block sizes of the ILU runs.
ILUMeshAndBlock ==
  ({MeshPoint} \X (1..MaxPointBlock)) \cup ({MeshSolo, MeshStar} \X BlockSizes)
    \cup {<<MeshPair, 1>>, <<MeshIdle, 1>>}

\* Every assembly, fill level and system on one rank, both vectors on one
\* point; one of each on two ranks.
InitILU ==
  \E mb \in ILUMeshAndBlock, f \in {"swap", "dominant"}, fill \in 0..MaxFill,
     t \in BOOLEAN, s \in {0, 1} :
    /\ mb[1] # MeshPoint => s = 0
    /\ mb[1].size > 1 => (f = "dominant" /\ ~t /\ fill = 0)
    /\ InitSystem(mb[1], ConfigILU(fill), mb[2], f, ComputeILUPreconditionerName, t,
                  [p \in 0..(mb[1].size - 1) |->
                     Scalars(ConformingVector(mb[1], p, mb[2], mb[1].nPoint[p], s))])

NextILU ==
  \/ \E p \in Ranks, transposed \in BOOLEAN : BuildILUPreconditioner(p, transposed)
  \/ \E p \in Ranks : ComputeILUPreconditioner(p)
  \/ \E p \in Ranks : ComputeILUPreconditioner_CompleteComms(p)
  \/ NextExchange

SpecILU == InitILU /\ [][NextILU]_vars

\* ------------------------------------------------------------------------
\* The linelet preconditioner: every rank builds the Jacobi and the linelet
\* preconditioners and applies the linelet preconditioner to the run's
\* vector.
\* ------------------------------------------------------------------------

\* A flow solver with the linelet preconditioner on a mesh whose markers
\* have the given kinds of boundary condition.
ConfigLinelet(kinds) ==
  [Kind_Linear_Solver_Prec |-> LINELET,
   Kind_Deform_Linear_Solver_Prec |-> LU_SGS,
   Kind_DiscAdj_Linear_Prec |-> LU_SGS,
   Discrete_Adjoint |-> FALSE,
   Linear_Solver_ILU_n |-> 0,
   Marker_All_KindBC |-> kinds]

\* The edges of the mesh of one rank, three rows of two points: the rows
\* (0, 1), (2, 3) and (4, 5), every point linked to the other point of its
\* row and to the points above and below it.
WallEdges ==
  {<<0, 1>>, <<2, 3>>, <<4, 5>>, <<0, 2>>, <<2, 4>>, <<1, 3>>, <<3, 5>>}

\* One rank, the three rows over a wall: marker 0 lists the points 0 and 1
\* of the first row, marker 1 the vertices second.  The faces between the
\* first two rows have the area stretch, the faces between the last two the
\* area upper, the faces inside a row the area 1; every volume is 2.
MeshWall(stretch, upper, second) ==
  [size |-> 1, nPoint |-> Arr(<<6>>), nPointDomain |-> Arr(<<6>>),
   send |-> Arr(<< Arr(<<>>) >>),
   recv |-> Arr(<< Arr(<<>>) >>),
   edges |-> Arr(<< WallEdges >>),
   area |-> Arr(<< [e \in WallEdges |->
                      IF e[2] - e[1] # 2 THEN 1
                      ELSE IF e[1] < 2 THEN stretch ELSE upper] >>),
   volume |-> Arr(<< [iPoint \in 0..5 |-> 2] >>),
   vertex |-> Arr(<< <<Arr(<<0, 1>>), second>> >>)]

\* The area of a face between the rows of a stretched mesh.
Stretched == 10

\* The meshes of one rank: not stretched, stretched, or stretched at the
\* wall only; the second marker without vertices, with the corner the first
\* marker lists too, or with the points of the last row.
WallMeshes ==
  {MeshWall(areas[1], areas[2], second) :
     areas \in {<<1, 1>>, <<Stretched, Stretched>>, <<Stretched, 1>>},
     second \in {Arr(<<>>), Arr(<<0>>), Arr(<<4, 5>>)}}

\* One rank, one point without neighbours, which marker 0 lists.
MeshLone ==
  [size |-> 1, nPoint |-> Arr(<<1>>), nPointDomain |-> Arr(<<1>>),
   send |-> Arr(<< Arr(<<>>) >>),
   recv |-> Arr(<< Arr(<<>>) >>),
   edges |-> Arr(<< {} >>),
   area |-> Arr(<< <<>> >>),
   volume |-> Arr(<< Arr(<<1>>) >>),
   vertex |-> Arr(<< <<Arr(<<0>>), Arr(<<>>)>> >>)]

\* Two ranks along a wall: each owns its wall point 0 and the point 1 above
\* it, and mirrors the other's wall point as its halo point 2.  Marker 0
\* lists the vertices first0 on rank 0 and first1 on rank 1, marker 1 none.
MeshWallPair(first0, first1) ==
  [size |-> 2, nPoint |-> Arr(<<3, 3>>), nPointDomain |-> Arr(<<2, 2>>),
   send |-> Arr(<< Arr(<<Nb(1, <<0>>)>>), Arr(<<Nb(0, <<0>>)>>) >>),
   recv |-> Arr(<< Arr(<<Nb(1, <<2>>)>>), Arr(<<Nb(0, <<2>>)>>) >>),
   edges |-> Arr(<< {<<0, 1>>, <<0, 2>>}, {<<0, 1>>, <<0, 2>>} >>),
   area |-> Arr(<< [e \in {<<0, 1>>, <<0, 2>>} |-> IF e[2] = 1 THEN Stretched ELSE 1],
                   [e \in {<<0, 1>>, <<0, 2>>} |-> IF e[2] = 1 THEN Stretched ELSE 1] >>),
   volume |-> Arr(<< Arr(<<1, 1, 1>>), Arr(<<1, 1, 1>>) >>),
   vertex |-> Arr(<< <<first0, Arr(<<>>)>>, <<first1, Arr(<<>>)>> >>)]

\* The meshes of two ranks: the wall marker lists the owned wall point, on
\* rank 0 with or without the halo point, on rank 1 or not.
WallPairMeshes ==
  {MeshWallPair(first0, first1) :
     first0 \in {Arr(<<0>>), Arr(<<0, 2>>)},
     first1 \in {Arr(<<>>), Arr(<<0>>)}}

\* One rank, five points in a line away from the wall: point 0, which
\* marker 0 lists, to point 4; every face has the area 1, every volume is 1.
MeshLine ==
  [size |-> 1, nPoint |-> Arr(<<5>>), nPointDomain |-> Arr(<<5>>),
   send |-> Arr(<< Arr(<<>>) >>),
   recv |-> Arr(<< Arr(<<>>) >>),
   edges |-> Arr(<< {<<0, 1>>, <<1, 2>>, <<2, 3>>, <<3, 4>>} >>),
   area |-> Arr(<< [e \in {<<0, 1>>, <<1, 2>>, <<2, 3>>, <<3, 4>>} |-> 1] >>),
   volume |-> Arr(<< Arr(<<1, 1, 1, 1, 1>>) >>),
   vertex |-> Arr(<< <<Arr(<<0>>), Arr(<<>>)>> >>)]

\* The kinds of the two markers of a run.
MarkerKinds ==
  {EULER_WALL, ISOTHERMAL, FAR_FIELD} \X {HEAT_FLUX, DISPLACEMENT_BOUNDARY, FAR_FIELD}

\* The meshes and block sizes of the linelet runs: scalar blocks on the
\* meshes with chains of several points.
LineletMeshAndBlock ==
  ((WallMeshes \cup WallPairMeshes) \X {1}) \cup ({MeshLone} \X BlockSizes)

\* Every mesh, block size and pair of kinds, the matrix with 2 on the
\* diagonal and -1 between linked points; on two ranks, where the second
\* marker has no vertex, one kind of it.  On the line, the right-hand side
\* of ones.
InitLinelet ==
  \/ \E mb \in LineletMeshAndBlock, kinds \in MarkerKinds :
       /\ mb[1].size > 1 => (kinds[1] # ISOTHERMAL /\ kinds[2] = FAR_FIELD)
       /\ InitPreconditioner(mb[1], ConfigLinelet(kinds), mb[2], "laplace",
                             ComputeLineletPreconditionerName, 0)
  \/ \E kinds \in MarkerKinds :
       InitPreconditionerOn(MeshLine, ConfigLinelet(kinds), 1, "laplace",
                            ComputeLineletPreconditionerName,
                            Arr(<< [k \in 0..4 |-> 1] >>))

\* A rank is in one call at a time: between the two exchanges of
\* ComputeLineletPreconditioner it builds nothing.
NextLinelet ==
  \/ \E p \in Ranks : ~thomas[p] /\ BuildJacobiPreconditioner(p, FALSE)
  \/ \E p \in Ranks : BuildLineletPreconditioner(p)
  \/ \E p \in Ranks : BuildLineletPreconditioner_nPoints(p)
  \/ \E p \in Ranks : BuildLineletPreconditioner_nLineLets(p)
  \/ \E p \in Ranks : ComputeLineletPreconditioner(p)
  \/ \E p \in Ranks : ComputeLineletPreconditioner_CompleteComms(p)
  \/ \E p \in Ranks : ComputeLineletPreconditioner_Thomas(p)
  \/ \E p \in Ranks : ComputeLineletPreconditioner_CompleteComms_Thomas(p)
  \/ NextExchange

SpecLinelet == InitLinelet /\ [][NextLinelet]_vars

\* ------------------------------------------------------------------------
\* The applies of the four preconditioners on two ranks
\* ------------------------------------------------------------------------

\* A flow solver with the LU-SGS preconditioner.
ConfigLU_SGS ==
  [Kind_Linear_Solver_Prec |-> LU_SGS,
   Kind_Deform_Linear_Solver_Prec |-> LU_SGS,
   Kind_DiscAdj_Linear_Prec |-> LU_SGS,
   Discrete_Adjoint |-> FALSE,
   Linear_Solver_ILU_n |-> 0]

\* The wall pair one-way: rank 1 mirrors rank 0's wall point as its halo
\* point 2, rank 0 mirrors nothing.  Marker 0 lists each rank's wall point.
MeshWallOneWay ==
  [size |-> 2, nPoint |-> Arr(<<2, 3>>), nPointDomain |-> Arr(<<2, 2>>),
   send |-> Arr(<< Arr(<<Nb(1, <<0>>)>>), Arr(<<>>) >>),
   recv |-> Arr(<< Arr(<<>>), Arr(<<Nb(0, <<2>>)>>) >>),
   edges |-> Arr(<< {<<0, 1>>}, {<<0, 1>>, <<0, 2>>} >>),
   area |-> Arr(<< [e \in {<<0, 1>>} |-> Stretched],
                   [e \in {<<0, 1>>, <<0, 2>>} |-> IF e[2] = 1 THEN Stretched ELSE 1] >>),
   volume |-> Arr(<< Arr(<<1, 1>>), Arr(<<1, 1, 1>>) >>),
   vertex |-> Arr(<< <<Arr(<<0>>), Arr(<<>>)>>, <<Arr(<<0>>), Arr(<<>>)>> >>)]

\* The preconditioner a run applies, with the configuration that selects it.
ApplyRuns ==
  {<<ComputeJacobiPreconditionerName, ConfigJacobi>>,
   <<ComputeILUPreconditionerName, ConfigILU(0)>>,
   <<ComputeLU_SGSPreconditionerName, ConfigLU_SGS>>}

\* Two ranks that mirror each other's point or of which one mirrors the
\* other's, scalar blocks, the matrix with 2 on the diagonal and -1 between
\* linked points; the linelet runs on the wall meshes of the same two kinds.
InitApply ==
  \/ \E m \in {MeshPair, MeshOneWay}, run \in ApplyRuns :
       InitPreconditioner(m, run[2], 1, "laplace", run[1], 0)
  \/ \E m \in {MeshWallPair(Arr(<<0>>), Arr(<<0>>)), MeshWallOneWay} :
       InitPreconditioner(m, ConfigLinelet(<<EULER_WALL, FAR_FIELD>>), 1, "laplace",
                          ComputeLineletPreconditionerName, 0)

\* Each run builds the preconditioner it applies; a rank builds nothing
\* between the two exchanges of an apply.
NextApply ==
  \/ \E p \in Ranks :
       /\ operation \in {ComputeJacobiPreconditionerName,
                         ComputeLineletPreconditionerName}
       /\ ~thomas[p]
       /\ BuildJacobiPreconditioner(p, FALSE)
  \/ \E p \in Ranks :
       /\ operation = ComputeILUPreconditionerName
       /\ BuildILUPreconditioner(p, FALSE)
  \/ \E p \in Ranks :
       /\ operation = ComputeLineletPreconditionerName
       /\ BuildLineletPreconditioner(p)
  \/ \E p \in Ranks : BuildLineletPreconditioner_nPoints(p)
  \/ \E p \in Ranks : BuildLineletPreconditioner_nLineLets(p)
  \/ \E p \in Ranks : ComputeJacobiPreconditioner(p)
  \/ \E p \in Ranks : ComputeJacobiPreconditioner_CompleteComms(p)
  \/ \E p \in Ranks : ComputeILUPreconditioner(p)
  \/ \E p \in Ranks : ComputeILUPreconditioner_CompleteComms(p)
  \/ \E p \in Ranks : ComputeLU_SGSPreconditioner(p)
  \/ \E p \in Ranks : ComputeLU_SGSPreconditioner_CompleteComms(p)
  \/ \E p \in Ranks : ComputeLU_SGSPreconditioner_Second(p)
  \/ \E p \in Ranks : ComputeLU_SGSPreconditioner_CompleteComms_Second(p)
  \/ \E p \in Ranks : ComputeLineletPreconditioner(p)
  \/ \E p \in Ranks : ComputeLineletPreconditioner_CompleteComms(p)
  \/ \E p \in Ranks : ComputeLineletPreconditioner_Thomas(p)
  \/ \E p \in Ranks : ComputeLineletPreconditioner_CompleteComms_Thomas(p)
  \/ \E p \in Ranks : CompleteComms_WaitanyUnposted(p)
  \/ NextExchange

SpecApply == InitApply /\ [][NextApply]_vars

\* ------------------------------------------------------------------------
\* The builds of several preconditioners on one matrix
\* ------------------------------------------------------------------------

\* A flow solver with the preconditioner prec whose matrix has the ILU
\* buffers too (the deformation solver's preconditioner is ILU).
ConfigBuilds(prec, fill, kinds) ==
  [Kind_Linear_Solver_Prec |-> prec,
   Kind_Deform_Linear_Solver_Prec |-> ILU,
   Kind_DiscAdj_Linear_Prec |-> LU_SGS,
   Discrete_Adjoint |-> FALSE,
   Linear_Solver_ILU_n |-> fill,
   Marker_All_KindBC |-> kinds]

\* The applies that read invM, with the preconditioner of each.
InvMRuns ==
  {<<ComputeJacobiPreconditionerName, JACOBI>>,
   <<ComputeLineletPreconditionerName, LINELET>>}

\* The meshes and block sizes of these runs: the line with scalar blocks,
\* the lone point with every block size.
BuildsMeshAndBlock == {<<MeshLine, 1>>} \cup ({MeshLone} \X BlockSizes)

InitBuilds ==
  \E mb \in BuildsMeshAndBlock, run \in InvMRuns, fill \in 0..MaxFill,
     f \in {"dominant", "laplace"} :
    InitPreconditioner(mb[1],
                       ConfigBuilds(run[2], fill, <<EULER_WALL, FAR_FIELD>>),
                       mb[2], f, run[1], 0)

\* Any build between two applies: a rank builds nothing between the two
\* exchanges of an apply.
NextBuilds ==
  \/ \E p \in Ranks, transpose \in BOOLEAN :
       ~thomas[p] /\ BuildJacobiPreconditioner(p, transpose)
  \/ \E p \in Ranks, transposed \in BOOLEAN :
       ~thomas[p] /\ BuildILUPreconditioner(p, transposed)
  \/ \E p \in Ranks : BuildLineletPreconditioner(p)
  \/ \E p \in Ranks : BuildLineletPreconditioner_nPoints(p)
  \/ \E p \in Ranks : BuildLineletPreconditioner_nLineLets(p)
  \/ \E p \in Ranks : ComputeJacobiPreconditioner(p)
  \/ \E p \in Ranks : ComputeJacobiPreconditioner_CompleteComms(p)
  \/ \E p \in Ranks : ComputeLineletPreconditioner(p)
  \/ \E p \in Ranks : ComputeLineletPreconditioner_CompleteComms(p)
  \/ \E p \in Ranks : ComputeLineletPreconditioner_Thomas(p)
  \/ \E p \in Ranks : ComputeLineletPreconditioner_CompleteComms_Thomas(p)

SpecBuilds == InitBuilds /\ [][NextBuilds]_vars

\* ------------------------------------------------------------------------
\* Properties of the halo exchange
\* ------------------------------------------------------------------------

\* Rank p is inside or past a CompleteComms call with a recognized commType.
Scattering(p) ==
  /\ pc[p] \in {"waitany", "waitall", "done"}
  /\ QuantityRecognized(callType[p])

\* Points of message j in the tables CompleteComms scatters with.
MessagePoints(p, reverse, j) ==
  0..(ScatterOffsets(p, reverse)[j + 1] - ScatterOffsets(p, reverse)[j] - 1)

\* The vector slot that value iVar of point i of message j is stored to.
DestSlot(p, reverse, j, i, iVar) ==
  ScatterPoints(p, reverse)[ScatterOffsets(p, reverse)[j] + i] * nVar[p] + iVar

\* The value received for it.
ReceivedValue(p, reverse, j, i, iVar) ==
  ScatterBuffer(p, reverse)[(ScatterOffsets(p, reverse)[j] + i) * countPerPoint[p] + iVar]

\* Sum of the values received for slot k in the messages processed so far.
ReceivedSum(p, k) ==
  LET perMessage ==
        [n \in 0..(Len(processed[p]) - 1) |->
           LET j == processed[p][n + 1]
               iVar == k % nVar[p]
               perPoint ==
                 [i \in MessagePoints(p, TRUE, j) |->
                    IF DestSlot(p, TRUE, j, i, iVar) = k
                    THEN ReceivedValue(p, TRUE, j, i, iVar) ELSE 0]
           IN SumTo(perPoint, Cardinality(MessagePoints(p, TRUE, j)))]
  IN SumTo(perMessage, Len(processed[p]))

\* Slots some processed message lists.
ListedSlots(p, reverse) ==
  {DestSlot(p, reverse, processed[p][n], i, iVar) :
     <<n, i, iVar>> \in
       {t \in (1..Len(processed[p])) \X (0..2) \X (0..(nVar[p] - 1)) :
          t[2] \in MessagePoints(p, reverse, processed[p][t[1]])}}

\* C1: CompleteComms in forward mode overwrites each destination slot with
\* the received value, in reverse mode adds the received value to what the
\* slot held; slots no processed message lists keep their value.
C1_OverwriteOrAccumulate ==
  \A p \in Ranks :
    Scattering(p) =>
      LET reverse == QuantityReverse(callType[p])
      IN /\ ~reverse =>
              \A n \in 1..Len(processed[p]) :
                \A i \in MessagePoints(p, reverse, processed[p][n]) :
                  \A iVar \in 0..(nVar[p] - 1) :
                    x[p][DestSlot(p, reverse, processed[p][n], i, iVar)]
                      = ReceivedValue(p, reverse, processed[p][n], i, iVar)
         /\ reverse =>
              \A k \in DOMAIN x[p] : x[p][k] = x0[p][k] + ReceivedSum(p, k)
         /\ \A k \in DOMAIN x[p] :
              k \notin ListedSlots(p, reverse) => x[p][k] = x0[p][k]

\* A rank has completed a reverse exchange of two messages that both add to
\* one owned point, and a rank has slots no message lists.
C1_Witness ==
  \E p \in Ranks :
    /\ pc[p] = "done" /\ callType[p] = SOLUTION_MATRIXTRANS
    /\ Len(processed[p]) = 2
    /\ \E k \in DOMAIN x[p] : x[p][k] > x0[p][k]
    /\ \E k \in DOMAIN x[p] : k \notin ListedSlots(p, TRUE)

\* The halo point of rank p that mirrors point i of the list rank q sends to
\* p holds, value by value, what q held at that point when it called
\* InitiateComms.
GhostsMirrorOwners ==
  \A p \in Ranks : \A j \in DOMAIN mesh.recv[p] :
    LET q == mesh.recv[p][j].rank
        js == CHOOSE s \in DOMAIN mesh.send[q] : mesh.send[q][s].rank = p
    IN \A i \in DOMAIN mesh.recv[p][j].pts : \A iVar \in 0..(nVar[p] - 1) :
         x[p][mesh.recv[p][j].pts[i] * nVar[p] + iVar]
           = x0[q][mesh.send[q][js].pts[i] * nVar[q] + iVar]

\* C2: after every partition has run InitiateComms and then CompleteComms in
\* forward mode, every ghost slot equals the value the owning neighbour held
\* at that point when it called InitiateComms.
C2_GhostEqualsOwner ==
  ( /\ quantity = SOLUTION_MATRIX
    /\ \A p \in Ranks : pc[p] = "done" /\ callType[p] = SOLUTION_MATRIX
    /\ \A p, q \in Ranks : round[p] = round[q] )
  => GhostsMirrorOwners

RECURSIVE ScatterInOrder(_, _, _, _)
\* The messages of slots 0..n-1 scattered in slot order.
ScatterInOrder(p, xv, n, reverse) ==
  IF n = 0 THEN xv
  ELSE ScatterNeighborMessage(p, ScatterInOrder(p, xv, n - 1, reverse),
                              n - 1, reverse)

\* C3: the vector CompleteComms leaves does not depend on the order in which
\* the pending messages arrive: whatever the order, it is the vector that
\* scattering the messages in slot order gives.
C3_ArrivalOrderIndependent ==
  \A p \in Ranks :
    ( /\ pc[p] \in {"waitall", "done"}
      /\ QuantityRecognized(callType[p])
      /\ ~ub[p]
      /\ CompleteGuard(p) )
    => x[p] = ScatterInOrder(p, x0[p], CompleteMessages(p),
                             QuantityReverse(callType[p]))

\* The middle rank has processed its two messages in the order 1, 0.
C3_Witness ==
  \E p \in Ranks :
    /\ pc[p] = "done" /\ ~ub[p]
    /\ processed[p] = <<1, 0>>
    /\ x[p] # x0[p]

\* C4: CompleteComms returns only after every send the matching
\* InitiateComms posted is locally complete, so no later InitiateComms
\* reloads the send buffer under a send in flight.
C4_SendsCompleteOnReturn ==
  \A p \in Ranks :
    pc[p] = "done" =>
      /\ \A i \in DOMAIN req_P2PSend[p] : req_P2PSend[p][i].st # "active"
      /\ sendq[p] = <<>>

\* The messages InitiateComms must post in reverse mode: one per neighbour of
\* the receive list, with the vector's values at that neighbour's points.
ReverseMessages(p) ==
  [j \in 1..nP2PRecv(p) |->
     [dst |-> Neighbors_P2PRecv(p)[j - 1],
      data |-> [n \in 1..(countPerPoint[p] * ALen(mesh.recv[p][j - 1].pts)) |->
                  IF (n - 1) % countPerPoint[p] < nVar[p]
                  THEN x0[p][(mesh.recv[p][j - 1].pts[(n - 1) \div countPerPoint[p]]
                                * nVar[p]) + ((n - 1) % countPerPoint[p])]
                  ELSE sentLog[p][j].data[n]]]]

\* C5: in reverse mode InitiateComms sends one message per neighbour of the
\* receive list, holding the vector's values at that neighbour's receive
\* points, and CompleteComms processes one message per neighbour of the send
\* list, whatever the numbers of send and receive neighbours.
C5_ReverseSwapsLists ==
  \A p \in Ranks :
    quantity = SOLUTION_MATRIXTRANS =>
      /\ ~ub[p]
      /\ pc[p] \in {"initiated", "waitany", "waitall"} =>
           /\ Len(sentLog[p]) = nP2PRecv(p)
           /\ sentLog[p] = ReverseMessages(p)
      /\ (pc[p] = "done" /\ callType[p] = SOLUTION_MATRIXTRANS) =>
           {processed[p][n] : n \in 1..Len(processed[p])} = 0..(nP2PSend(p) - 1)

\* C7: InitiateComms and CompleteComms called with an unrecognized quantity
\* raise the fatal error on every partition: neither returns.
C7_UnrecognizedIsFatal ==
  \A p \in Ranks :
    /\ (pc[p] \in {"initiated", "waitany", "waitall"}
          => QuantityRecognized(quantity))
    /\ ((pc[p] \in {"waitall", "done"} /\ round[p] > 0)
          => QuantityRecognized(callType[p]))
    /\ (pc[p] = "error" => errMsg[p] = UnrecognizedQuantity)

\* ------------------------------------------------------------------------
\* Properties of Initialize
\* ------------------------------------------------------------------------

\* C6: a call of Initialize on an object that is already initialized raises
\* "CSysMatrix can only be initialized once." and leaves every dimension,
\* pattern pointer and buffer of the object as it was; the first call on a
\* fresh object does not raise and initializes it.
C6_InitializeOnlyOnce ==
  [][\A p \in Ranks :
       initCalls'[p] # initCalls[p] =>
         IF matrix[p].null
         THEN pc'[p] # "error" /\ ~matrix'[p].null
         ELSE /\ pc'[p] = "error"
              /\ errMsg'[p] = OnlyOnce
              /\ Object(p)' = Object(p)]_vars

\* A second Initialize on an object whose first Initialize allocated neither
\* invM nor the ILU matrix has raised the error.
C6_Witness ==
  \E p \in Ranks :
    /\ initCalls[p] = 2
    /\ pc[p] = "error" /\ errMsg[p] = OnlyOnce
    /\ ~matrix[p].null /\ invM[p].null /\ ILU_matrix[p].null

\* ------------------------------------------------------------------------
\* Properties of the products
\* ------------------------------------------------------------------------

\* The block size of vec or of the result differs from nVar, or their block
\* count from nPoint.
Mismatch(p) ==
  \/ vec[p].nVar # nVar[p]
  \/ prodShape[p].nVar # nVar[p]
  \/ vec[p].nBlk # nPoint[p]
  \/ prodShape[p].nBlk # nPoint[p]

\* The result vector as the caller passed it.
ResultBefore(p) == SeededVector(p, prodShape[p].nVar * prodShape[p].nBlk)

\* The rank has not called the product yet or the call raised one of the two
\* errors, and the result vector is as the caller passed it.
FatalAndUnwritten(p) ==
  /\ pc[p] \in {"idle", "error"}
  /\ pc[p] = "error" => errMsg[p] \in {nVarMessage, nBlkMessage}
  /\ x[p] = ResultBefore(p)

RowSum(p, v, i, iVar) ==
  LET first == row_ptr[p].a[i]
      cnt == row_ptr[p].a[i + 1] - first
      perBlock ==
        [t \in 0..(cnt - 1) |->
           SumTo([j \in 0..(nVar[p] - 1) |->
                    matrix[p].a[((first + t) * nVar[p] * nVar[p]) + (iVar * nVar[p]) + j]
                      * v[(col_ind[p].a[first + t] * nVar[p]) + j]],
                 nVar[p])]
  IN SumTo(perBlock, cnt)

\* Every rank has returned from the same number of calls.
AllReturned ==
  \A p \in Ranks : pc[p] = "done" /\ round[p] = round[0]

\* C9: MatrixVectorProduct sets the result at every owned point i to the sum
\* over the blocks (i,j) of row i of A[i][j].vec[j], whatever the result held
\* before, and then fills every halo entry of the result with the owner's
\* entry by a forward halo exchange.
C9_ProductThenHalo ==
  operation = MatrixVectorProductName =>
    \A p \in Ranks :
      ~Mismatch(p) =>
        /\ ~ub[p]
        /\ (pc[p] \in {"initiated", "waitany", "waitall", "done"}) =>
             \A i \in 0..(nPointDomain[p] - 1) : \A iVar \in 0..(nVar[p] - 1) :
               x[p][i * nVar[p] + iVar] = RowSum(p, vec[p].a, i, iVar)
        /\ AllReturned =>
             \A i \in nPointDomain[p]..(nPoint[p] - 1) : \A iVar \in 0..(nVar[p] - 1) :
               LET o == OwnerOf(mesh, p, i)
               IN x[p][i * nVar[p] + iVar] = RowSum(o[1], vec[o[1]].a, o[2], iVar)

\* The vector y of the identity: conforming, and different from vec.
OtherVector(p) == ConformingVector(mesh, p, nVar[p], nPoint[p], 1)

\* The dot product over the owned points of all ranks.
OwnedDot(a, b) ==
  SumTo([p \in Ranks |->
           SumTo([k \in 0..(nPointDomain[p] * nVar[p] - 1) |-> a[p][k] * b[p][k]],
                 nPointDomain[p] * nVar[p])],
        mesh.size)

\* C10: for conforming x and y, on any number of partitions, the dot product
\* over the owned points of MatrixVectorProductTransposed(A, x) with y equals
\* that of MatrixVectorProduct(A, y) with x.
C10_TransposeIdentity ==
  (operation = MatrixVectorProductTransposedName /\ \A p \in Ranks : ~Mismatch(p)) =>
    /\ \A p \in Ranks : ~ub[p]
    /\ AllReturned =>
         OwnedDot(x, [p \in Ranks |-> OtherVector(p)])
           = OwnedDot([p \in Ranks |->
                         ProductRowLoop(p, FALSE, OtherVector(p),
                                        ZeroVector(nPoint[p] * nVar[p]), 0)],
                      [p \in Ranks |-> vec[p].a])

\* ------------------------------------------------------------------------
\* Properties of the structural edits
\* ------------------------------------------------------------------------

\* The nVar*nVar scalars of the block of nonzero index in mat.
BlockAt(p, mat, index) ==
  [k \in 0..(nVar[p] * nVar[p] - 1) |-> mat[index * nVar[p] * nVar[p] + k]]

IdentityBlock(nv) ==
  [k \in 0..(nv * nv - 1) |-> IF k \div nv = k % nv THEN 1 ELSE 0]

ZeroBlock(nv) == [k \in 0..(nv * nv - 1) |-> 0]

\* Entry iVar of the product of the stored block (pt, i) of mat with v, 0
\* when the pattern stores no block (pt, i).
ColumnTimes(p, mat, pt, i, v, iVar) ==
  IF pt >= RowsInPattern(p) THEN 0
  ELSE LET S == {index \in RowIndices(p, pt) : col_ind[p].a[index] = i}
       IN IF S = {} THEN 0
          ELSE LET index == CHOOSE s \in S : TRUE
               IN SumTo([jVar \in 0..(nVar[p] - 1) |->
                           mat[index * nVar[p] * nVar[p] + iVar * nVar[p] + jVar]
                             * v[jVar]], nVar[p])

\* C11: after EnforceSolutionAtNode(i, v, rhs) every block of block-row i is
\* zero but the diagonal block, which is the identity; every other block of
\* block-column i is zero; rhs[p] is decreased by the former A[p][i].v for
\* every p # i; rhs[i] = v; every other block and entry is unchanged; hence
\* row i of the modified system reads y[i] = v for every vector y.
C11_EnforcedSolution ==
  \A p \in Ranks :
    lastEdit[p].op = EnforceSolutionAtNodeName =>
      LET i == lastEdit[p].i
          v == lastEdit[p].v
          nv == nVar[p]
          y == OtherVector(p)
      IN /\ ~ub[p]
         /\ \A r \in 0..(RowsInPattern(p) - 1) : \A index \in RowIndices(p, r) :
              BlockAt(p, matrix[p].a, index) =
                IF r = i /\ col_ind[p].a[index] = i THEN IdentityBlock(nv)
                ELSE IF r = i \/ col_ind[p].a[index] = i THEN ZeroBlock(nv)
                ELSE BlockAt(p, lastEdit[p].mat, index)
         /\ \A pt \in 0..(nPoint[p] - 1) : \A iVar \in 0..(nv - 1) :
              x[p][pt * nv + iVar] =
                IF pt = i THEN v[iVar]
                ELSE lastEdit[p].b[pt * nv + iVar]
                       - ColumnTimes(p, lastEdit[p].mat, pt, i, v, iVar)
         /\ \A iVar \in 0..(nv - 1) : RowSum(p, y, i, iVar) = y[i * nv + iVar]

\* C12: DeleteValsRowi(i) zeroes the whole block-row of point i, sets the
\* diagonal block at i to the identity and leaves the blocks of the other
\* rows unchanged.
C12_DeleteBlockRow ==
  \A p \in Ranks :
    (lastEdit[p].op = DeleteValsRowiName /\ lastEdit[p].i < nPointDomain[p]) =>
      /\ ~ub[p]
      /\ \A r \in 0..(RowsInPattern(p) - 1) : \A index \in RowIndices(p, r) :
           BlockAt(p, matrix[p].a, index) =
             IF r = lastEdit[p].i /\ col_ind[p].a[index] = r THEN IdentityBlock(nVar[p])
             ELSE IF r = lastEdit[p].i THEN ZeroBlock(nVar[p])
             ELSE BlockAt(p, lastEdit[p].mat, index)

\* C12, for the scalar row the code deletes: DeleteValsRowi(i) takes the
\* index i of a scalar row; in every block of block-row i/nVar it zeroes row
\* i mod nVar, it sets the diagonal element (i, i) of the matrix to 1, and it
\* leaves every other scalar of the matrix, and the vector, unchanged.
C12_DeleteScalarRow ==
  \A p \in Ranks :
    lastEdit[p].op = DeleteValsRowiName =>
      LET nv == nVar[p]
          bi == lastEdit[p].i \div nv
          rw == lastEdit[p].i % nv
      IN /\ ~ub[p]
         /\ x[p] = lastEdit[p].b
         /\ \A r \in 0..(RowsInPattern(p) - 1) : \A index \in RowIndices(p, r) :
              \A iVar \in 0..(nv - 1) : \A jVar \in 0..(nv - 1) :
                matrix[p].a[index * nv * nv + iVar * nv + jVar] =
                  IF r = bi /\ iVar = rw
                  THEN IF col_ind[p].a[index] = bi /\ jVar = rw THEN 1 ELSE 0
                  ELSE lastEdit[p].mat[index * nv * nv + iVar * nv + jVar]

\* DeleteValsRowi has deleted the second scalar row of a block-row of 2x2
\* blocks: the first scalar row of those blocks is as it was.
C12_Witness ==
  \E p \in Ranks :
    /\ lastEdit[p].op = DeleteValsRowiName
    /\ nVar[p] = 2
    /\ lastEdit[p].i % 2 = 1
    /\ matrix[p].a # lastEdit[p].mat
    /\ ~ub[p]

\* C13: the block of nonzero index k occupies the scalars from k.nVar.nEqn to
\* (k+1).nVar.nEqn of the matrix buffer, and every operation (here the row
\* deletion and the Dirichlet enforcement) addresses block k at that offset
\* and stays inside the nnz.nVar.nEqn scalars allocated, for every nVar and
\* nEqn passed to Initialize.
C13_BlockLayout ==
  \A p \in Ranks :
    \A bl \in lastEdit[p].blocks :
      /\ bl[2] = bl[1] * nVar[p] * nEqn[p]
      /\ bl[2] + nVar[p] * nVar[p] <= nnz[p] * nVar[p] * nEqn[p]
      /\ ALen(matrix[p].a) = nnz[p] * nVar[p] * nEqn[p]

\* ------------------------------------------------------------------------
\* The preconditioner buffers
\* ------------------------------------------------------------------------

\* The kinds of preconditioner the configuration asks the matrix to build.
ConfiguredPreconditioners(cfg) ==
  {cfg.Kind_Linear_Solver_Prec, cfg.Kind_Deform_Linear_Solver_Prec}
    \cup (IF cfg.Discrete_Adjoint THEN {cfg.Kind_DiscAdj_Linear_Prec} ELSE {})

\* The kinds whose Build and Apply use invM.
invM_Users == {JACOBI, ILU, LINELET}

\* C14: after Initialize, invM is allocated whenever a configured
\* preconditioner (flow, mesh deformation, or discrete adjoint when the
\* adjoint is active) is of kind Jacobi, ILU or Linelet.
C14_invM_Allocated ==
  \A p \in Ranks :
    (initCalls[p] > 0 /\ ConfiguredPreconditioners(config) \cap invM_Users # {})
      => invM[p] # nullptr

\* ------------------------------------------------------------------------
\* Properties of the Jacobi preconditioner
\* ------------------------------------------------------------------------

\* The block left of the n x n block blk without row 0 and column col.
Minor(blk, n, col) ==
  [e \in 0..((n - 1) * (n - 1) - 1) |->
     blk[(e \div (n - 1) + 1) * n
         + (IF e % (n - 1) < col THEN e % (n - 1) ELSE (e % (n - 1)) + 1)]]

RECURSIVE Det(_, _)
RECURSIVE DetSum(_, _, _)
\* The expansion of the determinant along row 0, columns 0..col-1.
DetSum(blk, n, col) ==
  IF col = 0 THEN ScalarType(0)
  ELSE LET term == Times(blk[col - 1], Det(Minor(blk, n, col - 1), n - 1))
       IN IF (col - 1) % 2 = 0
          THEN Plus(DetSum(blk, n, col - 1), term)
          ELSE Minus(DetSum(blk, n, col - 1), term)

\* The determinant of the n x n block blk.
Det(blk, n) == IF n = 1 THEN blk[0] ELSE DetSum(blk, n, n)

\* blk * y = b for the nv x nv block blk.
Solves(blk, y, b, nv) ==
  \A iVar \in 0..(nv - 1) :
    DotRow(blk, iVar * nv, y, 0, nv, nv) = b[iVar]

\* The diagonal block of row i of rank p's matrix.
DiagonalBlock(p, i) ==
  GetBlock(matrix[p].a, mat_begin(p, dia_ptr[p].a[i]), nVar[p])

\* The block of point i of the vector v.
VectorBlock(p, v, i) == [iVar \in 0..(nVar[p] - 1) |-> v[i * nVar[p] + iVar]]

\* Elimination without pivoting divides by these: the diagonal of the block
\* once it is upper triangular.
Pivots(blk, nv) ==
  LET up == MatrixInverse_Run(blk, nv).block
  IN [iVar \in 0..(nv - 1) |-> up[iVar * nv + iVar]]

NoZeroPivot(blk, nv) ==
  \A iVar \in 0..(nv - 1) :
    IsFinite(Pivots(blk, nv)[iVar]) /\ Pivots(blk, nv)[iVar] # ScalarType(0)

\* Rank p's last apply has returned, and it followed the last build, a build
\* of op.
AppliedAfterBuild(p, op) ==
  /\ pc[p] = "done"
  /\ ~ub[p]
  /\ lastBuild[p].op = op
  /\ round[p] > lastBuild[p].round

\* The diagonal block of row i of the system rank p's preconditioner was
\* built for: transposed after a transposed build.
BuiltDiagonalBlock(p, i) ==
  IF lastBuild[p].transposed
  THEN Transposed(DiagonalBlock(p, i), nVar[p])
  ELSE DiagonalBlock(p, i)

\* C15: after BuildJacobiPreconditioner, ComputeJacobiPreconditioner(b)
\* returns at every owned point i the product inverse(A[i][i]) * b[i] (A is
\* the matrix of the system the preconditioner is built for: the transpose
\* of the stored matrix after a transposed build).
C15_JacobiInverse ==
  \A p \in Ranks :
    AppliedAfterBuild(p, BuildJacobiPreconditionerName) =>
      \A i \in 0..(nPointDomain[p] - 1) :
        Det(BuiltDiagonalBlock(p, i), nVar[p]) # ScalarType(0) =>
          Solves(BuiltDiagonalBlock(p, i), VectorBlock(p, x[p], i),
                 VectorBlock(p, vec[p].a, i), nVar[p])

\* C15, for the blocks elimination without pivoting can invert: after
\* BuildJacobiPreconditioner, ComputeJacobiPreconditioner(b) returns at
\* every owned point i whose diagonal block A[i][i] has no zero pivot the
\* product inverse(A[i][i]) * b[i].
C15_JacobiInverseWithoutZeroPivot ==
  \A p \in Ranks :
    AppliedAfterBuild(p, BuildJacobiPreconditionerName) =>
      \A i \in 0..(nPointDomain[p] - 1) :
        NoZeroPivot(BuiltDiagonalBlock(p, i), nVar[p]) =>
          Solves(BuiltDiagonalBlock(p, i), VectorBlock(p, x[p], i),
                 VectorBlock(p, vec[p].a, i), nVar[p])

\* The scenario of one point, block size 3 and A = 5 * identity: the apply
\* has returned b/5.
C15_Witness ==
  /\ mesh = MeshPoint
  /\ nVar[0] = 3
  /\ AppliedAfterBuild(0, BuildJacobiPreconditionerName)
  /\ DiagonalBlock(0, 0) = [e \in 0..8 |-> ScalarType(IF e \div 3 = e % 3 THEN 5 ELSE 0)]
  /\ \A k \in 0..2 : x[0][k] = Over(vec[0].a[k], ScalarType(5))

\* ------------------------------------------------------------------------
\* Properties of the ILU preconditioner
\* ------------------------------------------------------------------------

\* No update of the factorization is dropped: for every sub-diagonal block
\* (i, j) and every block (j, k) right of the diagonal of row j, the ILU
\* pattern has block (i, k).
ClosedUnderFill(p) ==
  \A iPoint \in 1..(nPointDomain[p] - 1) :
    \A index \in row_ptr_ilu[p].a[iPoint]..(dia_ptr_ilu[p].a[iPoint] - 1) :
      LET jPoint == col_ind_ilu[p].a[index]
      IN \A index_ \in (dia_ptr_ilu[p].a[jPoint] + 1)..(row_ptr_ilu[p].a[jPoint + 1] - 1) :
           ILUIndex(p, iPoint, col_ind_ilu[p].a[index_]) # -1

\* The pivots of the factorization, the diagonal blocks of the factorized
\* matrix, are inverted without meeting a zero.
PivotsNonsingular(p) ==
  \A iPoint \in 0..(nPointDomain[p] - 1) :
    NoZeroPivot(GetBlock(ILU_matrix[p].a,
                         dia_ptr_ilu[p].a[iPoint] * nVar[p] * nVar[p], nVar[p]),
                nVar[p])

\* The owned part of the vector v of rank p.
Owned(p, v) == [k \in 0..(nPointDomain[p] * nVar[p] - 1) |-> v[k]]

\* The case of the exact factorization: one partition, fill level 0, no
\* dropped update, nonsingular pivots, and the apply has returned.
ExactILU(p) ==
  /\ mesh.size = 1
  /\ AppliedAfterBuild(p, BuildILUPreconditionerName)
  /\ ilu_fill_in[p] = 0
  /\ ClosedUnderFill(p)
  /\ PivotsNonsingular(p)

LineletsBuilt(p) ==
  /\ lastBuild[p].op = BuildLineletPreconditionerName
  /\ pc[p] \notin {Allreduce_nPoints, Allreduce_nLineLets, "ub"}

\* The places (chain, element) of rank p's chains that hold the point.
PlacesOf(p, iPoint) ==
  {pl \in UNION {{<<iLinelet, iElem>> : iElem \in DOMAIN LineletPoint[p][iLinelet]} :
                   iLinelet \in DOMAIN LineletPoint[p]} :
     LineletPoint[p][pl[1]][pl[2]] = iPoint}

\* C17: after BuildLineletPreconditioner every point belongs to at most one
\* chain (it is at no more than one place of the chains), a vertex that two
\* qualifying markers list included.
C17_PointInOneChain ==
  \A p \in Ranks :
    LineletsBuilt(p) =>
      \A iPoint \in 0..(nPoint[p] - 1) : Cardinality(PlacesOf(p, iPoint)) <= 1

\* C18: after BuildLineletPreconditioner every point of every chain, the
\* seed included, is a point the partition owns.
C18_ChainPointsOwned ==
  \A p \in Ranks :
    LineletsBuilt(p) =>
      \A iPoint \in LineletPoints(LineletPoint[p]) : iPoint < nPointDomain[p]

\* The weight of the face between the points iPoint and jPoint of rank p:
\* half the area times the sum of the inverse volumes.
AnisotropyWeight(p, iPoint, jPoint) ==
  LET e == IF iPoint < jPoint THEN <<iPoint, jPoint>> ELSE <<jPoint, iPoint>>
  IN Frac(mesh.area[p][e] * (mesh.volume[p][iPoint] + mesh.volume[p][jPoint]),
          2 * mesh.volume[p][iPoint] * mesh.volume[p][jPoint])

\* The neighbours of the examined point of the pass that are unvisited and
\* owned.
Candidates(p, pass) ==
  {jPoint \in 0..(mesh.nPoint[p] - 1) :
     /\ jPoint # pass.tip
     /\ Linked(mesh, p, pass.tip, jPoint)
     /\ jPoint \notin pass.visited
     /\ jPoint < mesh.nPointDomain[p]}

\* The neighbours that qualify in the pass: the candidates whose weight is
\* greater than 0.9 times the largest weight of a candidate.
Qualifying(p, pass) ==
  {jPoint \in Candidates(p, pass) :
     \A kPoint \in Candidates(p, pass) :
       Less(Times(Frac(9, 10), AnisotropyWeight(p, pass.tip, kPoint)),
            AnisotropyWeight(p, pass.tip, jPoint))}

\* C19: a chain is extended at its tip only when exactly one neighbour
\* qualifies (unvisited, owned, weight greater than 0.9 times the largest
\* weight over the unvisited owned neighbours), and then by that neighbour;
\* when two or more qualify, or none, the chain stops and no later pass of
\* the discovery extends it; the appended point is marked visited (it is
\* visited in the next pass, which examines it as the new tip).
C19_ExtendedByTheOnlyQualifying ==
  \A p \in Ranks :
    \A k \in DOMAIN growth[p] :
      LET pass == growth[p][k]
      IN /\ pass.tip = pass.last
         /\ pass.appended # -1 => Qualifying(p, pass) = {pass.appended}
         /\ Cardinality(Qualifying(p, pass)) # 1 =>
              /\ pass.appended = -1
              /\ \A later \in DOMAIN growth[p] :
                   later > k => growth[p][later].chain # pass.chain
         /\ pass.appended # -1 =>
              /\ k + 1 \in DOMAIN growth[p]
              /\ growth[p][k + 1].chain = pass.chain
              /\ growth[p][k + 1].tip = pass.appended
              /\ pass.appended \in growth[p][k + 1].visited

\* A discovery on the mesh stretched at the wall only has extended a chain
\* by the only qualifying of two candidates and stopped a chain at a point
\* with two qualifying neighbours; the build has returned.
C19_Witness ==
  /\ mesh \in WallMeshes
  /\ LineletsBuilt(0)
  /\ \E k \in DOMAIN growth[0] :
       /\ growth[0][k].appended # -1
       /\ Cardinality(Candidates(0, growth[0][k])) > 1
  /\ \E k \in DOMAIN growth[0] :
       /\ growth[0][k].appended = -1
       /\ Cardinality(Qualifying(0, growth[0][k])) > 1

\* No marker of a qualifying kind has a vertex on rank p.
NoQualifyingMarker(p) == BuildLineletPreconditioner_Count(p, GetnMarker_All) = 0

\* Rank p's apply of the linelet preconditioner has returned, and it
\* followed the last build.
LineletApplied(p) ==
  /\ pc[p] = "done"
  /\ ~thomas[p]
  /\ round[p] >= lastBuild[p].round + 2

\* C20: when no boundary marker is of a qualifying kind, on this partition
\* or on all partitions, BuildLineletPreconditioner completes without an
\* error or an undefined operation, produces zero chains, and
\* ComputeLineletPreconditioner then returns the Jacobi result (the cached
\* inverse diagonal block times the block of vec) at every owned point.
C20_NoChainsDegradesToJacobi ==
  \A p \in Ranks :
    (LineletsBuilt(p) /\ NoQualifyingMarker(p)) =>
      /\ ~ub[p]
      /\ pc[p] # "error"
      /\ nLinelet[p] = 0
      /\ LineletApplied(p) =>
           Owned(p, x[p]) = Owned(p, ComputeJacobiPreconditioner_Loop(p, vec[p].a, x[p]))

\* Row iVar of the product of block (iPoint, jPoint) of rank p's matrix and
\* the block of point jPoint of the vector v; zero when jPoint is -1.
CoupledRow(p, v, iPoint, jPoint, iVar) ==
  IF jPoint = -1 THEN ScalarType(0)
  ELSE DotRow(matrix[p].a,
              mat_begin(p, MatrixIndex(p, iPoint, jPoint)) + iVar * nVar[p],
              v, jPoint * nVar[p], nVar[p], nVar[p])

\* The vector y satisfies the equations of element iElem of the chain: the
\* diagonal block of the point times y there, plus the blocks that couple
\* the point with the chain's previous and next point times y at those,
\* is the right-hand side b at the point.
ChainEquation(p, chain, iElem, y, b) ==
  LET iPoint == chain[iElem]
      before == IF iElem > 0 THEN chain[iElem - 1] ELSE -1
      after == IF iElem + 1 < ALen(chain) THEN chain[iElem + 1] ELSE -1
  IN /\ \A jPoint \in {iPoint, before, after} \ {-1} :
          /\ iPoint < ALen(row_ptr[p].a) - 1
          /\ MatrixIndex(p, iPoint, jPoint) # -1
     /\ \A iVar \in 0..(nVar[p] - 1) :
          Plus(Plus(CoupledRow(p, y, iPoint, iPoint, iVar),
                    CoupledRow(p, y, iPoint, before, iVar)),
               CoupledRow(p, y, iPoint, after, iVar))
            = b[iPoint * nVar[p] + iVar]

\* C21: for every chain, ComputeLineletPreconditioner returns at the
\* chain's points the exact solution of the block-tridiagonal system of the
\* diagonal blocks of the chain points and the blocks coupling consecutive
\* chain points, with the entries of vec as right-hand side; for a chain of
\* one point the system is the one of its diagonal block.  (The matrices of
\* the runs are diagonally dominant: every such system has one solution.)
C21_ThomasSolvesChain ==
  \A p \in Ranks :
    (LineletsBuilt(p) /\ LineletApplied(p)) =>
      \A iLinelet \in DOMAIN LineletPoint[p] :
        \A iElem \in DOMAIN LineletPoint[p][iLinelet] :
          ChainEquation(p, LineletPoint[p][iLinelet], iElem, x[p], vec[p].a)

\* C22: ComputeLineletPreconditioner performs one halo exchange of the
\* result per call, after all chain points and all non-chain points have
\* been computed: whenever a rank starts an exchange, no Thomas pass of the
\* call is still ahead of it.
C22_OneExchangeAfterAllPoints ==
  [][\A p \in Ranks : round'[p] # round[p] => ~thomas'[p]]_vars

\* ------------------------------------------------------------------------
\* Properties of the applies on two ranks
\* ------------------------------------------------------------------------

\* Every rank has returned from the same number of applies.
AllApplied ==
  /\ AllReturned
  /\ round[0] > 0
  /\ \A p \in Ranks : ~thomas[p]

\* Every halo entry of prod equals the owner's entry.
GhostsEqualOwners ==
  \A p \in Ranks : \A i \in nPointDomain[p]..(nPoint[p] - 1) :
    \A iVar \in 0..(nVar[p] - 1) :
      LET o == OwnerOf(mesh, p, i)
      IN x[p][i * nVar[p] + iVar] = x[o[1]][o[2] * nVar[o[1]] + iVar]

\* C23: every preconditioner apply (Jacobi, ILU, LU-SGS, Linelet) ends with
\* a forward InitiateComms and CompleteComms on its output vector after the
\* last write to an owned entry, so that on return every ghost entry equals
\* the value the owning partition computed.
C23_GhostsEqualOwnersOnReturn ==
  AllApplied => GhostsEqualOwners

\* The ILU buffer as Initialize allocates it.
FreshILU(p) == [k \in DOMAIN ILU_matrix[p].a |-> ScalarType(0)]

\* Rank p's last build was BuildILUPreconditioner.
ILUBuilt(p) == lastBuild[p].op = BuildILUPreconditionerName

\* C24: BuildILUPreconditioner rebuilds from the current matrix only: for
\* every fill level, transposed or not, the ILU buffer and invM after a build
\* are those of a build on a freshly allocated ILU buffer, whatever the
\* buffer held before; building twice gives what building once gives.
C24_ILUBuildFromMatrixOnly ==
  \A p \in Ranks :
    ILUBuilt(p) =>
      /\ ILUBuildInBounds(p, lastBuild[p].transposed)
      /\ LET st == BuildILUPreconditioner_From(p, lastBuild[p].transposed, FreshILU(p))
         IN /\ ILU_matrix[p].a = st.ILU_matrix
            /\ invM[p].a = st.invM

\* C25: when every partition calls InitiateComms and then CompleteComms with
\* the same quantity kind, every receive request CompleteComms waits on was
\* posted by the preceding InitiateComms (so that, the transport being
\* reliable, the wait ends and CompleteComms returns), for every neighbour
\* topology, partitions with incoming but no outgoing messages included.
C25_WaitsOnPostedReceives ==
  \A p \in Ranks :
    (pc[p] = "waitany" /\ callType[p] = quantity) =>
      \E ind \in DOMAIN req_P2PRecv[p] : req_P2PRecv[p][ind].st # "null"

\* ------------------------------------------------------------------------
\* Properties of the shared invM
\* ------------------------------------------------------------------------

\* The diagonal block of row i of the system whose inverses invM was last
\* written for: transposed after a transposed build.
InvertedDiagonalBlock(p, i) ==
  IF lastBuild[p].invTransposed
  THEN Transposed(DiagonalBlock(p, i), nVar[p])
  ELSE DiagonalBlock(p, i)

\* invM[i] times that block is the identity, at every owned point i whose
\* block elimination without pivoting inverts.
InvMHoldsInverses(p) ==
  \A i \in 0..(nPointDomain[p] - 1) :
    NoZeroPivot(InvertedDiagonalBlock(p, i), nVar[p]) =>
      MatrixMatrixProduct(GetBlock(invM[p].a, i * nVar[p] * nVar[p], nVar[p]),
                          InvertedDiagonalBlock(p, i), nVar[p])
        = Identity(nVar[p])

\* C26 as claimed: once BuildJacobiPreconditioner has been called, after any
\* sequence of builds on the unchanged matrix invM[i] is the inverse of
\* A[i][i] at every owned point i whenever an apply reads it; a later
\* BuildILUPreconditioner or BuildLineletPreconditioner does not change it.
C26_invMInverseAfterJacobi ==
  \A p \in Ranks :
    (lastBuild[p].jacobi /\ pc[p] # "ub") => InvMHoldsInverses(p)

\* C26, amended: when BuildJacobiPreconditioner has been called and no
\* BuildILUPreconditioner after it, invM[i] is the inverse of A[i][i] at
\* every owned point i whenever an apply reads it; a later
\* BuildLineletPreconditioner does not change it.
C26_invMInverseWhileJacobiWroteLast ==
  \A p \in Ranks :
    (lastBuild[p].invOp = BuildJacobiPreconditionerName /\ pc[p] # "ub") =>
      InvMHoldsInverses(p)

\* ComputeLineletPreconditioner has read invM on the line after
\* BuildJacobiPreconditioner and then BuildLineletPreconditioner.
C26_Witness ==
  /\ mesh = MeshLine
  /\ operation = ComputeLineletPreconditionerName
  /\ lastBuild[0].invOp = BuildJacobiPreconditionerName
  /\ lastBuild[0].op = BuildLineletPreconditionerName
  /\ round[0] > lastBuild[0].round
  /\ pc[0] = "done"
  /\ InvMHoldsInverses(0)


\* Rank p starts BuildLineletPreconditioner in this step, its previous build
\* having been of the linelet preconditioner too and having returned.
LineletsRebuilt(p) ==
  /\ LineletsBuilt(p)
  /\ nBuilds'[p] = nBuilds[p] + 1
  /\ lastBuild'[p].op = BuildLineletPreconditionerName

\* C27: BuildLineletPreconditioner called a second time with the same mesh
\* and markers leaves the same number of chains, the same ordered points in
\* each chain and the same chain-membership flags as the first call.
C27_LineletBuildIdempotent ==
  [][\A p \in Ranks :
       LineletsRebuilt(p) =>
         /\ nLinelet'[p] = nLinelet[p]
         /\ LineletPoint'[p] = LineletPoint[p]
         /\ LineletBool'[p] = LineletBool[p]]_vars

\* C28: EnforceSolutionAtNode reads the row pointer array only at the
\* indices 0..nPointDomain that the sparsity pattern provides, with halo
\* points (nPoint > nPointDomain) as without.
C28_RowPointerReadInPattern ==
  \A p \in Ranks :
    lastEdit[p].op = EnforceSolutionAtNodeName =>
      lastEdit[p].row_ptr \subseteq 0..nPointDomain[p]

\* The passes of rank p's last chain discovery that extended a chain.
ExtensionSteps(p) == {k \in DOMAIN growth[p] : growth[p][k].appended # -1}

\* C29: chain discovery terminates: every extension step appends a point
\* that was unvisited and is visited in every later pass, so the extension
\* steps over all chains are at most the number of points; the inner loop
\* has left every chain with a pass that appends nothing, and the outer loop
\* has gone through the chains 0..nLinelet-1 and no other.
C29_ChainDiscoveryTerminates ==
  \A p \in Ranks :
    (lastBuild[p].op = BuildLineletPreconditionerName /\ pc[p] # "ub") =>
      /\ \A k \in ExtensionSteps(p) :
           /\ growth[p][k].appended \notin growth[p][k].visited
           /\ \A later \in DOMAIN growth[p] :
                later > k => growth[p][k].appended \in growth[p][later].visited
      /\ Cardinality(ExtensionSteps(p)) <= nPoint[p]
      /\ \A k \in DOMAIN growth[p] : growth[p][k].chain \in 0..(nLinelet[p] - 1)
      /\ \A iLinelet \in 0..(nLinelet[p] - 1) :
           \E k \in DOMAIN growth[p] :
             /\ growth[p][k].chain = iLinelet
             /\ growth[p][k].appended = -1
             /\ \A later \in DOMAIN growth[p] :
                  later > k => growth[p][later].chain # iLinelet

\* A second discovery on a wall mesh has returned with two chains and has
\* visited every point: four extension steps from the two seeds.
C29_Witness ==
  /\ mesh \in WallMeshes
  /\ LineletsBuilt(0)
  /\ nBuilds[0] = 2
  /\ nLinelet[0] = 2
  /\ Cardinality(ExtensionSteps(0)) = 4
  /\ \A iPoint \in 0..(nPoint[0] - 1) :
       iPoint \in growth[0][Len(growth[0])].visited

\* Rank p has applied the ILU preconditioner and the call has returned.
ILUApplied(p) ==
  operation = ComputeILUPreconditionerName /\ round[p] > 0 /\ pc[p] \in {"idle", "done"}

\* C30: on a partition with no owned point BuildILUPreconditioner and
\* ComputeILUPreconditioner access no diagonal block and no block of invM,
\* and neither call is undefined: nPointDomain-1 is no point index.
C30_NoAccessWithoutOwnedPoints ==
  \A p \in Ranks :
    nPointDomain[p] = 0 =>
      /\ ILUBuilt(p) => (BuildILUPreconditioner_DiagonalPoints(p) = {} /\ ~ub[p])
      /\ ILUApplied(p) => (ComputeILUPreconditioner_DiagonalPoints(p) = {} /\ ~ub[p])

====
